---- MODULE Spec2Model ----
(***************************************************************************)
(* A model of the unified grep command of just-bash-openfs (src/grep.ts,   *)
(* kept here as src/unnamed/part_001) and of its companion openfsgrep.     *)
(*                                                                         *)
(* Strings are sequences of one-character strings, so that startsWith,     *)
(* slice, split and join are computed as the code computes them.  The      *)
(* fixed texts of error messages are kept as one element each: the code    *)
(* never looks inside them.                                                *)
(***************************************************************************)
EXTENDS Integers, Sequences, FiniteSets, TLC

VARIABLES
    mount,          \* createGrepCommand: the normalised mount point
    pc,             \* position of the current invocation of execute
    args,           \* execute: the argv of the invocation
    ctx,            \* execute: the host context (stdin, cwd, fs flavour)
    i,              \* parseGrepArgs: index of the next token (0-based)
    seenDoubleDash, \* parseGrepArgs: a `--` has been consumed
    parsed,         \* parseGrepArgs: the GrepArgs being filled, then execute's `parsed`
    roles,          \* history: what the parser took each consumed token for
    re,             \* execute: the compiled matcher
    resolvedFiles,  \* execute: file arguments resolved against cwd
    openfsPaths,    \* execute: the resolved paths under the mount point
    localPaths,     \* execute: the other resolved paths
    k,              \* execute: index of the next path of the running loop (0-based)
    allResults,     \* execute: match records collected so far
    hadError,       \* execute: a target failed and quiet is unset
    multiFile,      \* execute: the flag handed to formatOutput
    grepCalls,      \* history: the calls made to vfs.grep, <<pattern, path>>
    fsCalls,        \* history: the calls made to ctx.fs, <<operation, path>>
    targets,        \* history: per processed target, how it was served and what it gave
    out,            \* the ExecResult returned by execute
    call,           \* a direct application of one of the module's functions: its input
    ret             \* ... and its result

vars == <<mount, pc, args, ctx, i, seenDoubleDash, parsed, roles, re, resolvedFiles,
          openfsPaths, localPaths, k, allResults, hadError, multiFile,
          grepCalls, fsCalls, targets, out, call, ret>>

execVars == <<pc, args, ctx, i, seenDoubleDash, parsed, roles, re, resolvedFiles,
              openfsPaths, localPaths, k, allResults, hadError, multiFile,
              grepCalls, fsCalls, targets, out>>

----------------------------------------------------------------------------
(* JavaScript string primitives                                            *)

\* F applied to the value of v, which is computed once
With(v, F(_)) == CHOOSE r \in { F(w) : w \in {v} } : TRUE

StartsWith(s, p) == Len(s) >= Len(p) /\ SubSeq(s, 1, Len(p)) = p

EndsWith(s, p) == Len(s) >= Len(p) /\ SubSeq(s, Len(s) - Len(p) + 1, Len(s)) = p

\* s.slice(n), n >= 0
Slice(s, n) == SubSeq(s, n + 1, Len(s))

\* s.slice(0, -1)
DropLast(s) == SubSeq(s, 1, Len(s) - 1)

Digits == <<"0", "1", "2", "3", "4", "5", "6", "7", "8", "9">>

IsDigit(c) == \E d \in 1..10 : Digits[d] = c

DigitVal(c) == (CHOOSE d \in 1..10 : Digits[d] = c) - 1

RECURSIVE digitsValue(_, _, _)
digitsValue(s, j, acc) ==
    IF j > Len(s) \/ ~IsDigit(s[j]) THEN acc
    ELSE digitsValue(s, j + 1, acc * 10 + DigitVal(s[j]))

RECURSIVE trimStart(_)
trimStart(s) == IF s # <<>> /\ s[1] = " " THEN trimStart(Tail(s)) ELSE s

\* Number.parseInt(s, 10): leading blanks, an optional sign, the longest
\* prefix of digits; NaN when there is no digit.
parseInt(s) ==
    LET t == trimStart(s)
        signed == t # <<>> /\ t[1] \in {"-", "+"}
        u == IF signed THEN Tail(t) ELSE t
    IN  IF u = <<>> \/ ~IsDigit(u[1]) THEN [nan |-> TRUE, val |-> 0]
        ELSE [nan |-> FALSE,
              val |-> (IF signed /\ t[1] = "-" THEN -1 ELSE 1) * digitsValue(u, 1, 0)]

RECURSIVE natToString(_)
natToString(n) ==
    IF n < 10 THEN <<Digits[n + 1]>>
    ELSE natToString(n \div 10) \o <<Digits[(n % 10) + 1]>>

\* String(n) / `${n}` for an integer n
numToString(n) == IF n < 0 THEN <<"-">> \o natToString(-n) ELSE natToString(n)

----------------------------------------------------------------------------
(* Arg parsing                                                             *)

BOOLEAN_FLAGS ==
    { <<"-", c>> : c \in {"i", "n", "v", "c", "l", "L", "r", "R", "E", "F", "w",
                          "o", "h", "q"} }

LONG_FLAGS ==
    { << <<"-", "-", "i", "g", "n", "o", "r", "e", "-", "c", "a", "s", "e">>, <<"-", "i">> >>,
      << <<"-", "-", "l", "i", "n", "e", "-", "n", "u", "m", "b", "e", "r">>, <<"-", "n">> >>,
      << <<"-", "-", "i", "n", "v", "e", "r", "t", "-", "m", "a", "t", "c", "h">>, <<"-", "v">> >>,
      << <<"-", "-", "c", "o", "u", "n", "t">>, <<"-", "c">> >>,
      << <<"-", "-", "f", "i", "l", "e", "s", "-", "w", "i", "t", "h", "-", "m", "a", "t", "c", "h", "e", "s">>, <<"-", "l">> >>,
      << <<"-", "-", "f", "i", "l", "e", "s", "-", "w", "i", "t", "h", "o", "u", "t", "-", "m", "a", "t", "c", "h">>, <<"-", "L">> >>,
      << <<"-", "-", "r", "e", "c", "u", "r", "s", "i", "v", "e">>, <<"-", "r">> >>,
      << <<"-", "-", "e", "x", "t", "e", "n", "d", "e", "d", "-", "r", "e", "g", "e", "x", "p">>, <<"-", "E">> >>,
      << <<"-", "-", "f", "i", "x", "e", "d", "-", "s", "t", "r", "i", "n", "g", "s">>, <<"-", "F">> >>,
      << <<"-", "-", "w", "o", "r", "d", "-", "r", "e", "g", "e", "x", "p">>, <<"-", "w">> >>,
      << <<"-", "-", "o", "n", "l", "y", "-", "m", "a", "t", "c", "h", "i", "n", "g">>, <<"-", "o">> >>,
      << <<"-", "-", "n", "o", "-", "f", "i", "l", "e", "n", "a", "m", "e">>, <<"-", "h">> >>,
      << <<"-", "-", "q", "u", "i", "e", "t">>, <<"-", "q">> >>,
      << <<"-", "-", "s", "i", "l", "e", "n", "t">>, <<"-", "q">> >> }

IsLongFlag(arg) == \E e \in LONG_FLAGS : e[1] = arg

LongFlagShort(arg) == (CHOOSE e \in LONG_FLAGS : e[1] = arg)[2]

MaxCountPrefix == <<"-", "-", "m", "a", "x", "-", "c", "o", "u", "n", "t", "=">>

\* The GrepArgs parseGrepArgs starts from
NewGrepArgs ==
    [patterns |-> <<>>, files |-> <<>>, ignoreCase |-> FALSE, lineNumber |-> FALSE,
     invertMatch |-> FALSE, count |-> FALSE, filesWithMatches |-> FALSE,
     filesWithoutMatch |-> FALSE, recursive |-> FALSE, extendedRegexp |-> FALSE,
     fixedStrings |-> FALSE, wordRegexp |-> FALSE, onlyMatching |-> FALSE,
     noFilename |-> FALSE, quiet |-> FALSE, maxCount |-> 0]

applyFlag(result, flag) ==
    CASE flag = <<"-", "i">> -> [result EXCEPT !.ignoreCase = TRUE]
      [] flag = <<"-", "n">> -> [result EXCEPT !.lineNumber = TRUE]
      [] flag = <<"-", "v">> -> [result EXCEPT !.invertMatch = TRUE]
      [] flag = <<"-", "c">> -> [result EXCEPT !.count = TRUE]
      [] flag = <<"-", "l">> -> [result EXCEPT !.filesWithMatches = TRUE]
      [] flag = <<"-", "L">> -> [result EXCEPT !.filesWithoutMatch = TRUE]
      [] flag \in {<<"-", "r">>, <<"-", "R">>} -> [result EXCEPT !.recursive = TRUE]
      [] flag = <<"-", "E">> -> [result EXCEPT !.extendedRegexp = TRUE]
      [] flag = <<"-", "F">> -> [result EXCEPT !.fixedStrings = TRUE]
      [] flag = <<"-", "w">> -> [result EXCEPT !.wordRegexp = TRUE]
      [] flag = <<"-", "o">> -> [result EXCEPT !.onlyMatching = TRUE]
      [] flag = <<"-", "h">> -> [result EXCEPT !.noFilename = TRUE]
      [] flag = <<"-", "q">> -> [result EXCEPT !.quiet = TRUE]
      [] OTHER -> result

\* for (k = from; k <= to; k++) applyFlag(result, `-${arg[k]}`), 1-based
RECURSIVE applyFlags(_, _, _, _)
applyFlags(result, arg, from, to) ==
    IF from > to THEN result
    ELSE applyFlags(applyFlag(result, <<"-", arg[from]>>), arg, from + 1, to)

\* One turn of the parser's loop either goes on with a new state or returns
\* the error string.
ParseOn(result, ni, dd) ==
    [error |-> <<>>, result |-> result, i |-> ni, seenDoubleDash |-> dd]

ParseFail(msg) ==
    [error |-> msg, result |-> NewGrepArgs, i |-> 0, seenDoubleDash |-> FALSE]

NL == "\n"

pushPattern(result, p) == [result EXCEPT !.patterns = Append(@, p)]

pushFile(result, f) == [result EXCEPT !.files = Append(@, f)]

\* A separator after which every token is a file
parseAfterDoubleDashAsFile(result, arg, idx) ==
    ParseOn(pushFile(result, arg), idx + 1, TRUE)

\* if (seenDoubleDash) { ... }
parseAfterDoubleDash(result, arg, idx) ==
    IF Len(result.patterns) = 0
    THEN ParseOn(pushPattern(result, arg), idx + 1, TRUE)
    ELSE ParseOn(pushFile(result, arg), idx + 1, TRUE)

\* A parser that takes a long option it does not know for a positional
parseLongFlagLenient(result, arg, idx) ==
    IF IsLongFlag(arg)
    THEN ParseOn(applyFlag(result, LongFlagShort(arg)), idx + 1, FALSE)
    ELSE IF StartsWith(arg, MaxCountPrefix)
    THEN LET v == parseInt(Slice(arg, Len(MaxCountPrefix)))
         IN  IF v.nan \/ v.val < 1
             THEN ParseFail(<<"grep: invalid max count: ">> \o arg \o <<NL>>)
             ELSE ParseOn([result EXCEPT !.maxCount = v.val], idx + 1, FALSE)
    ELSE IF Len(result.patterns) = 0
    THEN ParseOn(pushPattern(result, arg), idx + 1, FALSE)
    ELSE ParseOn(pushFile(result, arg), idx + 1, FALSE)

\* if (arg.startsWith("--")) { ... }
parseLongFlag(result, arg, idx) ==
    IF IsLongFlag(arg)
    THEN ParseOn(applyFlag(result, LongFlagShort(arg)), idx + 1, FALSE)
    ELSE IF StartsWith(arg, MaxCountPrefix)
    THEN LET v == parseInt(Slice(arg, Len(MaxCountPrefix)))
         IN  IF v.nan \/ v.val < 1
             THEN ParseFail(<<"grep: invalid max count: ">> \o arg \o <<NL>>)
             ELSE ParseOn([result EXCEPT !.maxCount = v.val], idx + 1, FALSE)
    ELSE ParseFail(<<"grep: unknown option: ">> \o arg \o <<NL>>)

\* if (arg === "-e") { ... }
parseDashE(result, argv, idx) ==
    IF idx + 1 >= Len(argv)
    THEN ParseFail(<<"grep: option requires an argument -- 'e'", NL>>)
    ELSE ParseOn(pushPattern(result, argv[idx + 2]), idx + 2, FALSE)

\* if (arg === "-m") { ... }
parseDashM(result, argv, idx) ==
    IF idx + 1 >= Len(argv)
    THEN ParseFail(<<"grep: option requires an argument -- 'm'", NL>>)
    ELSE LET v == parseInt(argv[idx + 2])
         IN  IF v.nan \/ v.val < 1
             THEN ParseFail(<<"grep: invalid max count: ">> \o argv[idx + 2] \o <<NL>>)
             ELSE ParseOn([result EXCEPT !.maxCount = v.val], idx + 2, FALSE)

\* The first position j (1-based, j >= 2) of arg whose character is no
\* boolean flag; 0 when there is none.
firstNonBoolean(arg) ==
    LET bad == {j \in 2..Len(arg) : <<"-", arg[j]>> \notin BOOLEAN_FLAGS}
    IN  IF bad = {} THEN 0 ELSE CHOOSE j \in bad : \A j2 \in bad : j <= j2

\* Short flags met before a pattern is claimed, possibly combined (-inr),
\* with an embedded -e or -m taking the rest of the token or the next one.
parseShortBeforePattern(result, argv, idx) ==
    LET arg == argv[idx + 1]
        j == firstNonBoolean(arg)
        rest == Slice(arg, j)
        seen == applyFlags(result, arg, 2, j - 1)
    IN  IF arg = <<"-", "e">> THEN parseDashE(result, argv, idx)
        ELSE IF arg = <<"-", "m">> THEN parseDashM(result, argv, idx)
        ELSE IF j = 0 THEN ParseOn(applyFlags(result, arg, 2, Len(arg)), idx + 1, FALSE)
        ELSE IF arg[j] = "e" THEN
            IF rest # <<>> THEN ParseOn(pushPattern(seen, rest), idx + 1, FALSE)
            ELSE IF idx + 1 < Len(argv)
            THEN ParseOn(pushPattern(seen, argv[idx + 2]), idx + 2, FALSE)
            ELSE ParseFail(<<"grep: option requires an argument -- 'e'", NL>>)
        ELSE IF arg[j] = "m" THEN
            IF rest = <<>> /\ ~(idx + 1 < Len(argv))
            THEN ParseFail(<<"grep: option requires an argument -- 'm'", NL>>)
            ELSE LET v == IF rest # <<>> THEN parseInt(rest) ELSE parseInt(argv[idx + 2])
                     ni == IF rest # <<>> THEN idx + 1 ELSE idx + 2
                 IN  IF v.nan \/ v.val < 1
                     THEN ParseFail(<<"grep: invalid max count", NL>>)
                     ELSE ParseOn([seen EXCEPT !.maxCount = v.val], ni, FALSE)
        ELSE ParseFail(<<"grep: unknown option: ">> \o arg \o <<NL>>)

\* Dash-led tokens met after the pattern: -e, -m, combined boolean flags,
\* and otherwise a file path.
parseShortAfterPattern(result, argv, idx) ==
    LET arg == argv[idx + 1]
    IN  IF arg = <<"-", "e">> THEN parseDashE(result, argv, idx)
        ELSE IF arg = <<"-", "m">> THEN parseDashM(result, argv, idx)
        ELSE IF firstNonBoolean(arg) = 0
        THEN ParseOn(applyFlags(result, arg, 2, Len(arg)), idx + 1, FALSE)
        ELSE ParseOn(pushFile(result, arg), idx + 1, FALSE)

\* Positional argument
parsePositional(result, arg, idx) ==
    IF Len(result.patterns) = 0
    THEN ParseOn(pushPattern(result, arg), idx + 1, FALSE)
    ELSE ParseOn(pushFile(result, arg), idx + 1, FALSE)

\* The body of `while (i < args.length)`: one token (with the value it takes)
parseToken(result, argv, idx, dd) ==
    LET arg == argv[idx + 1]
    IN  IF dd THEN parseAfterDoubleDash(result, arg, idx)
        ELSE IF arg = <<"-", "-">> THEN ParseOn(result, idx + 1, TRUE)
        ELSE IF StartsWith(arg, <<"-", "-">>) THEN parseLongFlag(result, arg, idx)
        ELSE IF StartsWith(arg, <<"-">>) /\ Len(arg) > 1 /\ Len(result.patterns) = 0
        THEN parseShortBeforePattern(result, argv, idx)
        ELSE IF StartsWith(arg, <<"-">>) /\ Len(arg) > 1 /\ Len(result.patterns) > 0
        THEN parseShortAfterPattern(result, argv, idx)
        ELSE parsePositional(result, arg, idx)

----------------------------------------------------------------------------
(* Regex building.  The host's RegExp is modelled for the syntax the model's *)
(* patterns use: literal characters, `.`, `|`, `\b` and escaped characters,  *)
(* matched leftmost-first with the alternatives tried in order.              *)

RegexSpecials == {".", "*", "+", "?", "^", "$", "{", "}", "(", ")", "|", "[", "]", "\\"}

RECURSIVE escapeRegex(_)
escapeRegex(s) ==
    IF s = <<>> THEN <<>>
    ELSE (IF s[1] \in RegexSpecials THEN <<"\\", s[1]>> ELSE <<s[1]>>)
         \o escapeRegex(Tail(s))

Lit(c) == [t |-> "lit", c |-> c]
AnyChar == [t |-> "any", c |-> ""]
WordBoundary == [t |-> "wb", c |-> ""]

\* new RegExp(src): the alternatives of src, or a SyntaxError (a backslash at
\* the end of the pattern)
RECURSIVE regexParse(_, _, _, _)
regexParse(src, j, cur, alts) ==
    IF j > Len(src) THEN [ok |-> TRUE, alts |-> Append(alts, cur)]
    ELSE IF src[j] = "|" THEN regexParse(src, j + 1, <<>>, Append(alts, cur))
    ELSE IF src[j] = "\\" THEN
        IF j = Len(src) THEN [ok |-> FALSE, alts |-> <<>>]
        ELSE regexParse(src, j + 2,
                        Append(cur, IF src[j + 1] = "b" THEN WordBoundary
                                    ELSE Lit(src[j + 1])),
                        alts)
    ELSE IF src[j] = "." THEN regexParse(src, j + 1, Append(cur, AnyChar), alts)
    ELSE regexParse(src, j + 1, Append(cur, Lit(src[j])), alts)

LowerCase == <<"a", "b", "c", "d", "e", "f", "g", "h", "i", "j", "k", "l", "m",
               "n", "o", "p", "q", "r", "s", "t", "u", "v", "w", "x", "y", "z">>
UpperCase == <<"A", "B", "C", "D", "E", "F", "G", "H", "I", "J", "K", "L", "M",
               "N", "O", "P", "Q", "R", "S", "T", "U", "V", "W", "X", "Y", "Z">>

\* The canonical form the `i` flag compares
toUpperCase(c) ==
    IF \E n \in 1..26 : LowerCase[n] = c
    THEN UpperCase[CHOOSE n \in 1..26 : LowerCase[n] = c]
    ELSE c

IsWordChar(c) ==
    \/ \E n \in 1..26 : LowerCase[n] = c \/ UpperCase[n] = c
    \/ IsDigit(c)
    \/ c = "_"

\* \b at offset p of line (p characters precede it)
AtWordBoundary(line, p) ==
    LET before == p >= 1 /\ IsWordChar(line[p])
        after == p < Len(line) /\ IsWordChar(line[p + 1])
    IN  before # after

\* The offset where the atoms from a on, matched at offset p, end; -1 if
\* they do not match there
RECURSIVE matchAtoms(_, _, _, _, _)
matchAtoms(atoms, a, line, p, ic) ==
    IF a > Len(atoms) THEN p
    ELSE IF atoms[a].t = "wb" THEN
        IF AtWordBoundary(line, p) THEN matchAtoms(atoms, a + 1, line, p, ic) ELSE -1
    ELSE IF p >= Len(line) THEN -1
    ELSE IF atoms[a].t = "any" THEN matchAtoms(atoms, a + 1, line, p + 1, ic)
    ELSE IF \/ line[p + 1] = atoms[a].c
            \/ ic /\ toUpperCase(line[p + 1]) = toUpperCase(atoms[a].c)
    THEN matchAtoms(atoms, a + 1, line, p + 1, ic)
    ELSE -1

\* The end of the first alternative, from alternative n on, that matches at p
RECURSIVE matchAlts(_, _, _, _, _)
matchAlts(alts, n, line, p, ic) ==
    IF n > Len(alts) THEN -1
    ELSE LET e == matchAtoms(alts[n], 1, line, p, ic)
         IN  IF e >= 0 THEN e ELSE matchAlts(alts, n + 1, line, p, ic)

NoMatch == [found |-> FALSE, index |-> 0, end |-> 0, text |-> <<>>]

\* re.exec(line) of a global regex whose lastIndex is `from`: the leftmost
\* match starting at or after `from` (its `end` is the new lastIndex), or
\* null
RECURSIVE regexExec(_, _, _)
regexExec(rx, line, from) ==
    IF from > Len(line) THEN NoMatch
    ELSE LET e == matchAlts(rx.alts, 1, line, from, rx.ignoreCase)
         IN  IF e >= 0
             THEN [found |-> TRUE, index |-> from, end |-> e,
                   text |-> SubSeq(line, from + 1, e)]
             ELSE regexExec(rx, line, from + 1)

\* buildRegex: the compiled matcher, or `threw` when new RegExp throws
buildRegex(pattern, opts) ==
    LET esc == IF opts.fixedStrings THEN escapeRegex(pattern) ELSE pattern
        src == IF opts.wordRegexp THEN <<"\\", "b">> \o esc \o <<"\\", "b">> ELSE esc
        p == regexParse(src, 1, <<>>, <<>>)
    IN  [threw |-> ~p.ok, src |-> src, alts |-> p.alts, ignoreCase |-> opts.ignoreCase]

buildServerPattern(pattern, opts) ==
    IF opts.fixedStrings THEN escapeRegex(pattern)
    ELSE IF opts.wordRegexp THEN <<"\\", "b">> \o pattern \o <<"\\", "b">>
    ELSE pattern

RECURSIVE joinFrom(_, _, _)
joinFrom(parts, n, sep) ==
    IF n > Len(parts) THEN <<>>
    ELSE IF n = Len(parts) THEN parts[n]
    ELSE parts[n] \o sep \o joinFrom(parts, n + 1, sep)

\* parts.join(sep)
joinWith(parts, sep) == With(parts, LAMBDA ps : joinFrom(ps, 1, sep))

(* Server-side compatibility check *)
\* A gate that lets -o through to the server
isServerSideCompatibleIgnoringOnlyMatching(opts) ==
    IF opts.invertMatch THEN FALSE ELSE TRUE

isServerSideCompatible(opts) ==
    IF opts.invertMatch THEN FALSE
    ELSE IF opts.onlyMatching THEN FALSE
    ELSE TRUE

----------------------------------------------------------------------------
(* The host filesystem behind ctx.fs: a fixed tree.  /d is where the remote  *)
(* substrate is mounted; /dx only shares a string prefix with it; /l/u is a  *)
(* file whose read fails; every other path does not exist.                   *)

File(path, content) ==
    [path |-> path, isFile |-> TRUE, isDirectory |-> FALSE, readable |-> TRUE,
     content |-> content, names |-> <<>>]

Unreadable(path) ==
    [path |-> path, isFile |-> TRUE, isDirectory |-> FALSE, readable |-> FALSE,
     content |-> <<>>, names |-> <<>>]

Dir(path, names) ==
    [path |-> path, isFile |-> FALSE, isDirectory |-> TRUE, readable |-> TRUE,
     content |-> <<>>, names |-> names]

FsTree ==
    { Dir(<<"/", "l">>, << <<"a">>, <<"u">>, <<"s">> >>),
      File(<<"/", "l", "/", "a">>, <<"a", "b", NL, "b", NL, "A", " ", "a", NL>>),
      Unreadable(<<"/", "l", "/", "u">>),
      Dir(<<"/", "l", "/", "s">>, << <<"c">> >>),
      File(<<"/", "l", "/", "s", "/", "c">>, <<"a", NL>>),
      File(<<"/", "d", "x">>, <<"b", "a", NL>>),
      Dir(<<"/", "d">>, << <<"a">>, <<"b">> >>),
      File(<<"/", "d", "/", "a">>, <<"a", NL, "b", NL>>),
      File(<<"/", "d", "/", "b">>, <<"a", "a", NL, "A", NL>>) }

\* A directory is also found under its name followed by a slash
fsKey(path) ==
    IF Len(path) > 1 /\ EndsWith(path, <<"/">>)
       /\ \E e \in FsTree : e.path = DropLast(path) /\ e.isDirectory
    THEN DropLast(path) ELSE path

fsExists(path) == \E e \in FsTree : e.path = fsKey(path)

fsNode(path) == CHOOSE e \in FsTree : e.path = fsKey(path)

\* ctx.fs.resolvePath(base, rel)
resolvePath(base, rel) ==
    IF StartsWith(rel, <<"/">>) THEN rel
    ELSE (IF EndsWith(base, <<"/">>) THEN base ELSE base \o <<"/">>) \o rel

----------------------------------------------------------------------------
(* Local grep.  A walk returns its records, or `threw`, and in both cases    *)
(* the calls it made to ctx.fs.                                              *)

MatchLine(file, lineNumber, line, defined, matchText) ==
    [file |-> file, lineNumber |-> lineNumber, line |-> line,
     matchText |-> [defined |-> defined, text |-> matchText]]

\* content.split("\n")
RECURSIVE splitNL(_, _, _)
splitNL(s, cur, acc) ==
    IF s = <<>> THEN Append(acc, cur)
    ELSE IF s[1] = NL THEN splitNL(Tail(s), <<>>, Append(acc, cur))
    ELSE splitNL(Tail(s), Append(cur, s[1]), acc)

\* split, then drop the empty last line a final newline leaves
splitLines(content) ==
    With(splitNL(content, <<>>, <<>>),
         LAMBDA lines :
            IF Len(lines) > 0 /\ lines[Len(lines)] = <<>> THEN DropLast(lines) ELSE lines)

\* A loop that leaves lastIndex as the last exec left it
keepLastIndex(lastIndex) == lastIndex

\* re.lastIndex = 0, before the exec of every line
resetLastIndex(lastIndex) == 0

\* A scan that leaves lastIndex where exec put it
lastIndexAfterExec(m) == m.end

\* re.lastIndex after a match of the -o loop: where exec put it, and one
\* further when the match is empty
nextLastIndex(m) == IF Len(m.text) = 0 THEN m.end + 1 ELSE m.end

\* The -o loop: one record per match of the line, from lastIndex `from` on
RECURSIVE onlyMatchingLoop(_, _, _, _, _)
onlyMatchingLoop(file, n, line, rx, from) ==
    With(regexExec(rx, line, from),
         LAMBDA m :
            IF ~m.found THEN <<>>
            ELSE <<MatchLine(file, n, line, TRUE, m.text)>>
                 \o onlyMatchingLoop(file, n, line, rx, nextLastIndex(m)))

\* A loop body where -o is looked at before -v
matchLineOnlyMatchingFirst(file, n, line, rx, opts) ==
    With(regexExec(rx, line, 0),
         LAMBDA match :
            IF opts.onlyMatching /\ match.found
            THEN onlyMatchingLoop(file, n, line, rx, 0)
            ELSE IF (IF opts.invertMatch THEN ~match.found ELSE match.found)
            THEN <<MatchLine(file, n, line, match.found, match.text)>>
            ELSE <<>>)

\* The records of line n
matchLine(file, n, line, rx, opts) ==
    With(regexExec(rx, line, 0),
         LAMBDA match :
            IF (IF opts.invertMatch THEN ~match.found ELSE match.found)
            THEN IF opts.onlyMatching /\ match.found
                 THEN onlyMatchingLoop(file, n, line, rx, 0)
                 ELSE <<MatchLine(file, n, line, match.found, match.text)>>
            ELSE <<>>)

\* for (i = 0; i < lines.length; i++) { ... }
RECURSIVE matchLines(_, _, _, _, _)
matchLines(file, lines, n, rx, opts) ==
    IF n > Len(lines) THEN <<>>
    ELSE matchLine(file, n, lines[n], rx, opts) \o matchLines(file, lines, n + 1, rx, opts)

Walk(threw, results, calls) == [threw |-> threw, results |-> results, calls |-> calls]

grepFile(filePath, rx, opts) ==
    IF ~fsExists(filePath) \/ ~fsNode(filePath).isFile \/ ~fsNode(filePath).readable
    THEN Walk(TRUE, <<>>, << <<"readFile", filePath>> >>)
    ELSE With(splitLines(fsNode(filePath).content),
              LAMBDA lines :
                 Walk(FALSE, matchLines(filePath, lines, 1, rx, opts),
                      << <<"readFile", filePath>> >>))

RECURSIVE expandAndGrep(_, _, _, _)
RECURSIVE expandEntries(_, _, _, _, _, _, _)

\* The loop of expandAndGrep over the entries of dir from entry n on, with
\* the results and calls gathered so far
expandEntries(dir, n, rx, opts, withFileTypes, results, calls) ==
    LET names == fsNode(dir).names
    IN  IF n > Len(names) THEN Walk(FALSE, results, calls)
        ELSE
        LET childPath == resolvePath(dir, names[n])
            isDir == fsExists(childPath) /\ fsNode(childPath).isDirectory
            isFile == fsExists(childPath) /\ fsNode(childPath).isFile
        IN  With(
            IF isDir THEN expandAndGrep(childPath, rx, opts, withFileTypes)
            ELSE IF isFile THEN grepFile(childPath, rx, opts)
            ELSE Walk(FALSE, <<>>, <<>>),
            LAMBDA sub :
            IF withFileTypes
            THEN IF sub.threw THEN Walk(TRUE, <<>>, calls \o sub.calls)
                 ELSE expandEntries(dir, n + 1, rx, opts, withFileTypes,
                                    results \o sub.results, calls \o sub.calls)
            ELSE \* try { stat; ... } catch { skip }
                 LET statCall == << <<"stat", childPath>> >>
                 IN  IF ~fsExists(childPath) \/ sub.threw
                     THEN expandEntries(dir, n + 1, rx, opts, withFileTypes, results,
                                        calls \o statCall
                                        \o (IF fsExists(childPath) THEN sub.calls ELSE <<>>))
                     ELSE expandEntries(dir, n + 1, rx, opts, withFileTypes,
                                        results \o sub.results,
                                        calls \o statCall \o sub.calls))

expandAndGrep(dir, rx, opts, withFileTypes) ==
    expandEntries(dir, 1, rx, opts, withFileTypes, <<>>,
                  << <<IF withFileTypes THEN "readdirWithFileTypes" ELSE "readdir", dir>> >>)

localGrep(path, rx, opts, withFileTypes) ==
    LET statCall == << <<"stat", path>> >>
    IN  IF ~fsExists(path) THEN Walk(TRUE, <<>>, statCall)
        ELSE IF fsNode(path).isDirectory
        THEN IF ~opts.recursive THEN Walk(FALSE, <<>>, statCall)
             ELSE With(expandAndGrep(path, rx, opts, withFileTypes),
                       LAMBDA w : Walk(w.threw, w.results, statCall \o w.calls))
        ELSE With(grepFile(path, rx, opts),
                  LAMBDA w : Walk(w.threw, w.results, statCall \o w.calls))

----------------------------------------------------------------------------
(* Convert server matches                                                  *)

GrepMatch(path, line_number, line) ==
    [path |-> path, line_number |-> line_number, line |-> line]

\* Convert VFS path back to mount path
fromVfsPath(mnt, path) == IF path = <<"/">> THEN mnt ELSE mnt \o path

RECURSIVE convertServerMatches(_, _, _, _)
convertServerMatches(matches, mnt, rx, opts) ==
    IF matches = <<>> THEN <<>>
    ELSE LET m == matches[1]
             rest == convertServerMatches(Tail(matches), mnt, rx, opts)
         IN  With(regexExec(rx, m.line, 0),
                  LAMBDA match :
                     IF opts.ignoreCase /\ ~match.found THEN rest
                     ELSE <<MatchLine(fromVfsPath(mnt, m.path), m.line_number, m.line,
                                      match.found, match.text)>> \o rest)

----------------------------------------------------------------------------
(* Max count                                                               *)

RECURSIVE applyMaxCountLoop(_, _, _, _)
RECURSIVE applyMaxCountLoopGlobal(_, _, _, _)
\* A limit counted over all files together
applyMaxCountLoopGlobal(matches, n, maxCount, result) ==
    IF n > Len(matches) THEN result
    ELSE With(IF Len(result) < maxCount THEN Append(result, matches[n]) ELSE result,
              LAMBDA pushed : applyMaxCountLoopGlobal(matches, n + 1, maxCount, pushed))

applyMaxCountLoop(matches, n, maxCount, result) ==
    IF n > Len(matches) THEN result
    ELSE LET m == matches[n]
             current == Cardinality({j \in 1..Len(result) : result[j].file = m.file})
         IN  With(IF current < maxCount THEN Append(result, m) ELSE result,
                  LAMBDA pushed : applyMaxCountLoop(matches, n + 1, maxCount, pushed))

\* A max count that is never applied
applyMaxCountSkipped(matches, opts) == matches

applyMaxCount(matches, opts) ==
    IF opts.maxCount <= 0 THEN matches
    ELSE applyMaxCountLoop(matches, 1, opts.maxCount, <<>>)

----------------------------------------------------------------------------
(* Output formatting                                                       *)

ExecResult(stdout, stderr, exitCode) ==
    [stdout |-> stdout, stderr |-> stderr, exitCode |-> exitCode]

\* new Set(matches.map((m) => m.file)), in insertion order
RECURSIVE fileSet(_, _)
fileSet(matches, seen) ==
    IF matches = <<>> THEN seen
    ELSE With(IF \E j \in 1..Len(seen) : seen[j] = matches[1].file THEN seen
              ELSE Append(seen, matches[1].file),
              LAMBDA added : fileSet(Tail(matches), added))

countOf(matches, file) == Cardinality({j \in 1..Len(matches) : matches[j].file = file})

formatQuiet(matches) ==
    ExecResult(<<>>, <<>>, IF Len(matches) > 0 THEN 0 ELSE 1)

\* A -l listing that names the file of every record
formatFilesWithMatchesPerRecord(matches) ==
    IF Len(matches) = 0 THEN ExecResult(<<>>, <<>>, 1)
    ELSE ExecResult(joinWith([j \in 1..Len(matches) |-> matches[j].file], <<NL>>) \o <<NL>>,
                    <<>>, 0)

formatFilesWithMatches(matches) ==
    With(fileSet(matches, <<>>),
         LAMBDA files :
            IF Len(files) = 0 THEN ExecResult(<<>>, <<>>, 1)
            ELSE ExecResult(joinWith(files, <<NL>>) \o <<NL>>, <<>>, 0))

\* A -L that succeeds when some file matched
formatFilesWithoutMatchInverted(matches) ==
    IF Len(fileSet(matches, <<>>)) > 0 THEN ExecResult(<<>>, <<>>, 0)
    ELSE ExecResult(<<>>, <<>>, 1)

formatFilesWithoutMatch(matches) ==
    IF Len(fileSet(matches, <<>>)) > 0 THEN ExecResult(<<>>, <<>>, 1)
    ELSE ExecResult(<<>>, <<>>, 0)

formatCount(matches, showFile) ==
    With(fileSet(matches, <<>>),
         LAMBDA files :
            IF Len(files) = 0 THEN ExecResult(<<"0", NL>>, <<>>, 1)
            ELSE ExecResult(
                     joinWith([j \in 1..Len(files) |->
                                 IF showFile /\ files[j] # <<>>
                                 THEN files[j] \o <<":">>
                                      \o numToString(countOf(matches, files[j]))
                                 ELSE numToString(countOf(matches, files[j]))],
                              <<NL>>) \o <<NL>>,
                     <<>>, 0))

formatLine(m, opts, showFile) ==
    (IF showFile /\ m.file # <<>> THEN m.file \o <<":">> ELSE <<>>)
    \o (IF opts.lineNumber THEN numToString(m.lineNumber) \o <<":">> ELSE <<>>)
    \o (IF opts.onlyMatching
        THEN (IF m.matchText.defined THEN m.matchText.text ELSE <<>>)
        ELSE m.line)

\* A normal output whose lines are joined and not terminated
formatNormalJoined(matches, opts, showFile) ==
    IF Len(matches) = 0 THEN ExecResult(<<>>, <<>>, 1)
    ELSE ExecResult(
             joinWith([j \in 1..Len(matches) |-> formatLine(matches[j], opts, showFile)],
                      <<NL>>),
             <<>>, 0)

formatNormal(matches, opts, showFile) ==
    IF Len(matches) = 0 THEN ExecResult(<<>>, <<>>, 1)
    ELSE ExecResult(
             joinWith([j \in 1..Len(matches) |-> formatLine(matches[j], opts, showFile)],
                      <<NL>>) \o <<NL>>,
             <<>>, 0)

\* A formatter that looks at -c before -L
formatOutputCountBeforeWithoutMatch(matches, opts, mf, hadErr) ==
    LET showFile == mf /\ ~opts.noFilename
    IN  IF opts.quiet THEN formatQuiet(matches)
        ELSE IF opts.filesWithMatches THEN formatFilesWithMatches(matches)
        ELSE IF opts.count THEN formatCount(matches, showFile)
        ELSE IF opts.filesWithoutMatch THEN formatFilesWithoutMatch(matches)
        ELSE formatNormal(matches, opts, showFile)

\* A formatter that puts the hadError flag it is handed on stderr
formatOutputReportingErrors(matches, opts, mf, hadErr) ==
    LET showFile == mf /\ ~opts.noFilename
        r == IF opts.quiet THEN formatQuiet(matches)
             ELSE IF opts.filesWithMatches THEN formatFilesWithMatches(matches)
             ELSE IF opts.filesWithoutMatch THEN formatFilesWithoutMatch(matches)
             ELSE IF opts.count THEN formatCount(matches, showFile)
             ELSE formatNormal(matches, opts, showFile)
    IN  IF hadErr
        THEN ExecResult(r.stdout, <<"grep: some files could not be searched", NL>>, 2)
        ELSE r

\* A formatter whose exit code is 2 when a target failed
formatOutputFailingOnError(matches, opts, mf, hadErr) ==
    LET showFile == mf /\ ~opts.noFilename
        r == IF opts.quiet THEN formatQuiet(matches)
             ELSE IF opts.filesWithMatches THEN formatFilesWithMatches(matches)
             ELSE IF opts.filesWithoutMatch THEN formatFilesWithoutMatch(matches)
             ELSE IF opts.count THEN formatCount(matches, showFile)
             ELSE formatNormal(matches, opts, showFile)
    IN  IF hadErr THEN ExecResult(r.stdout, r.stderr, 2) ELSE r

formatOutput(matches, opts, mf, hadErr) ==
    LET showFile == mf /\ ~opts.noFilename
    IN  IF opts.quiet THEN formatQuiet(matches)
        ELSE IF opts.filesWithMatches THEN formatFilesWithMatches(matches)
        ELSE IF opts.filesWithoutMatch THEN formatFilesWithoutMatch(matches)
        ELSE IF opts.count THEN formatCount(matches, showFile)
        ELSE formatNormal(matches, opts, showFile)

(* Stdin grep *)
\* A stdin grep that names its records and prints as for a recursive search
grepStdinNamed(stdin, rx, opts) ==
    With(splitLines(stdin),
         LAMBDA lines :
            With(applyMaxCount(matchLines(<<"-">>, lines, 1, rx, opts), opts),
                 LAMBDA limited : formatOutput(limited, opts, opts.recursive, FALSE)))

grepStdin(stdin, rx, opts) ==
    With(splitLines(stdin),
         LAMBDA lines :
            With(applyMaxCount(matchLines(<<>>, lines, 1, rx, opts), opts),
                 LAMBDA limited : formatOutput(limited, opts, FALSE, FALSE)))

----------------------------------------------------------------------------
(* The inputs of the model                                                 *)

MaxArgs == 3

\* The tokens an argv is made of: flags (single, combined, unknown), the
\* separator, a pattern (which is a relative file name as well) and paths
Tokens ==
    { <<"-", "v">>, <<"-", "o">>, <<"-", "r", "n">>, <<"-", "h">>, <<"-", "c">>,
      <<"-", "q">>, <<"-", "z">>, <<"-", "-">>, <<"-", "c", "m", "1">>,
      <<"a">>,
      <<"/", "d">>, <<"/", "d", "/">>, <<"/", "d", "/", "a">>, <<"/", "l">>,
      <<"/", "d", "x">> }

Argvs == UNION { [1..n -> Tokens] : n \in 0..MaxArgs }

MountPoints == { <<"/", "d">>, <<"/", "d", "/">> }

Contexts ==
    [stdin : { <<>>, <<"a", "b", NL, "b", NL>> },
     cwd : { <<"/", "l">> },
     withFileTypes : BOOLEAN]

\* What vfs.grep may throw: an Error with a message, or any other value
Thrown ==
    { [isError |-> TRUE, message |-> <<"connection lost">>, isNumber |-> FALSE, num |-> 0],
      [isError |-> FALSE, message |-> <<"raw string">>, isNumber |-> FALSE, num |-> 0],
      [isError |-> FALSE, message |-> <<>>, isNumber |-> TRUE, num |-> 42] }

\* String(err) of a thrown non-Error value
String(err) == IF err.isNumber THEN numToString(err.num) ELSE err.message

\* What vfs.grep may return
Returned ==
    { <<>>,
      << GrepMatch(<<"/", "a">>, 1, <<"a">>) >>,
      << GrepMatch(<<"/", "a">>, 1, <<"a">>), GrepMatch(<<"/", "a">>, 2, <<"b">>),
         GrepMatch(<<"/", "b">>, 1, <<"a", "a">>) >>,
      << GrepMatch(<<"/">>, 3, <<"A">>) >> }

Outcomes ==
    { [threw |-> TRUE, err |-> e, matches |-> <<>>] : e \in Thrown }
    \cup { [threw |-> FALSE, err |-> [isError |-> FALSE, message |-> <<>>,
                                       isNumber |-> FALSE, num |-> 0],
             matches |-> m] : m \in Returned }

----------------------------------------------------------------------------
(* createGrepCommand and execute                                           *)

\* Normalize mount point: ensure no trailing slash
normalizeMount(mountPoint) ==
    IF EndsWith(mountPoint, <<"/">>) THEN DropLast(mountPoint) ELSE mountPoint

\* A classification by string prefix alone
isOpenfsPathByPrefix(mnt, p) == StartsWith(p, mnt)

isOpenfsPath(mnt, p) == p = mnt \/ StartsWith(p, mnt \o <<"/">>)

\* A translation that only cuts the mount prefix off
toVfsPathSliced(mnt, p) == Slice(p, Len(mnt))

\* Convert mount path to VFS path, as handed to vfs.grep
toVfsPath(mnt, p) ==
    LET vfsPath == IF p = mnt THEN <<"/">> ELSE Slice(p, Len(mnt))
    IN  IF vfsPath = <<>> THEN <<"/">> ELSE vfsPath

resolveFile(c, f) == IF StartsWith(f, <<"/">>) THEN f ELSE resolvePath(c.cwd, f)

resolveFiles(c, files) == [n \in 1..Len(files) |-> resolveFile(c, files[n])]

RECURSIVE selectPaths(_, _, _)
selectPaths(paths, mnt, wantOpenfs) ==
    IF paths = <<>> THEN <<>>
    ELSE (IF isOpenfsPath(mnt, paths[1]) = wantOpenfs THEN <<paths[1]>> ELSE <<>>)
         \o selectPaths(Tail(paths), mnt, wantOpenfs)

usageError ==
    ExecResult(<<>>, <<"grep: usage: grep [OPTIONS] PATTERN [FILE...]", NL>>, 2)

NoRegex == [threw |-> TRUE, src |-> <<>>, alts |-> <<>>, ignoreCase |-> FALSE]

NoResult == ExecResult(<<>>, <<>>, -1)

Idle ==
    /\ pc = "idle"
    /\ args = <<>>
    /\ ctx = [stdin |-> <<>>, cwd |-> <<>>, withFileTypes |-> FALSE]
    /\ i = 0
    /\ seenDoubleDash = FALSE
    /\ parsed = NewGrepArgs
    /\ roles = <<>>
    /\ re = NoRegex
    /\ resolvedFiles = <<>>
    /\ openfsPaths = <<>>
    /\ localPaths = <<>>
    /\ k = 0
    /\ allResults = <<>>
    /\ hadError = FALSE
    /\ multiFile = FALSE
    /\ grepCalls = <<>>
    /\ fsCalls = <<>>
    /\ targets = <<>>
    /\ out = NoResult

NoCall == [fn |-> "none", input |-> <<>>]

NoReturn == [fn |-> "none", value |-> <<>>]

Init ==
    /\ \E mountPoint \in MountPoints : mount = normalizeMount(mountPoint)
    /\ Idle
    /\ call = NoCall
    /\ ret = NoReturn

\* execute(args, ctx) is entered
Invoke ==
    /\ pc = "idle"
    /\ \E a \in Argvs, c \in Contexts :
        /\ args' = a
        /\ ctx' = c
    /\ pc' = "parse"
    /\ UNCHANGED <<mount, i, seenDoubleDash, parsed, roles, re, resolvedFiles, openfsPaths,
                   localPaths, k, allResults, hadError, multiFile, grepCalls, fsCalls,
                   targets, out, call, ret>>

\* What one turn of the parser took its token for (and, when the turn took
\* two tokens, the second one): read off the GrepArgs before and after
tokenRoles(before, dd, p) ==
    LET grew == IF Len(p.result.patterns) > Len(before.patterns) THEN "pattern"
                ELSE IF Len(p.result.files) > Len(before.files) THEN "file"
                ELSE IF p.seenDoubleDash /\ ~dd THEN "separator"
                ELSE "flag"
    IN  IF p.i - Len(roles) = 2
        THEN <<"flag", IF grew = "pattern" THEN "pattern" ELSE "value">>
        ELSE <<grew>>

\* parseGrepArgs: one turn of the loop, and the return of execute when the
\* parser returns an error string
ParseStep ==
    /\ pc = "parse"
    /\ i < Len(args)
    /\ LET p == parseToken(parsed, args, i, seenDoubleDash)
       IN  IF p.error # <<>>
           THEN /\ pc' = "done"
                /\ out' = ExecResult(<<>>, p.error, 2)
                /\ UNCHANGED <<i, seenDoubleDash, parsed, roles>>
           ELSE /\ i' = p.i
                /\ seenDoubleDash' = p.seenDoubleDash
                /\ parsed' = p.result
                /\ roles' = roles \o tokenRoles(parsed, seenDoubleDash, p)
                /\ UNCHANGED <<pc, out>>
    /\ UNCHANGED <<mount, args, ctx, re, resolvedFiles, openfsPaths, localPaths, k,
                   allResults, hadError, multiFile, grepCalls, fsCalls, targets,
                   call, ret>>

\* parseGrepArgs returns the GrepArgs; execute checks that there is a
\* pattern and builds the regex
Compile ==
    /\ pc = "parse"
    /\ i >= Len(args)
    /\ LET rx == buildRegex(joinWith(parsed.patterns, <<"|">>), parsed)
       IN  IF Len(parsed.patterns) = 0
           THEN pc' = "done" /\ out' = usageError /\ re' = re
           ELSE IF rx.threw
           THEN /\ pc' = "done"
                /\ out' = ExecResult(<<>>,
                                     <<"grep: invalid regular expression: ">>
                                     \o joinWith(parsed.patterns, <<"|">>) \o <<NL>>, 2)
                /\ re' = re
           ELSE pc' = "compiled" /\ re' = rx /\ out' = out
    /\ UNCHANGED <<mount, args, ctx, i, seenDoubleDash, parsed, roles, resolvedFiles,
                   openfsPaths, localPaths, k, allResults, hadError, multiFile,
                   grepCalls, fsCalls, targets, call, ret>>

\* An execute that returns once the paths are classified
firstLoopSkipped(opts, openfs, local) == "done"

\* The loop execute runs first, given the classification
firstLoop(opts, openfs, local) ==
    IF Len(openfs) > 0 /\ isServerSideCompatible(opts) THEN "server"
    ELSE IF Len(openfs) > 0 THEN "fallback"
    ELSE IF Len(local) > 0 THEN "local"
    ELSE "matched"

\* No file: grep stdin or fail.  Otherwise resolve and classify the paths.
Classify ==
    /\ pc = "compiled"
    /\ IF Len(parsed.files) = 0
       THEN /\ pc' = "done"
            /\ out' = IF ctx.stdin = <<>> THEN usageError
                      ELSE grepStdin(ctx.stdin, re, parsed)
            /\ UNCHANGED <<resolvedFiles, openfsPaths, localPaths, multiFile>>
       ELSE LET resolved == resolveFiles(ctx, parsed.files)
                openfs == selectPaths(resolved, mount, TRUE)
                local == selectPaths(resolved, mount, FALSE)
            IN  /\ resolvedFiles' = resolved
                /\ openfsPaths' = openfs
                /\ localPaths' = local
                /\ multiFile' = (Len(resolved) > 1 \/ parsed.recursive)
                /\ pc' = firstLoop(parsed, openfs, local)
                /\ out' = out
    /\ UNCHANGED <<mount, args, ctx, i, seenDoubleDash, parsed, roles, re, k, allResults,
                   hadError, grepCalls, fsCalls, targets, call, ret>>

NoError == [isError |-> FALSE, message |-> <<>>, isNumber |-> FALSE, num |-> 0]

\* A target as processed: the loop that served it, whether the call threw
\* (and what), what the substrate returned, and the records the target gave
Target(path, via, threw, err, raw, results) ==
    [path |-> path, via |-> via, threw |-> threw, err |-> err, raw |-> raw,
     results |-> results]

\* Where execute goes after turn n (0-based) of a loop over `paths`
afterTurn(loop, n, paths) ==
    IF n + 1 < Len(paths) THEN loop
    ELSE IF loop = "local" \/ Len(localPaths) = 0 THEN "matched"
    ELSE "local"

\* A catch that takes every thrown value for an Error
fatalResultMessageOnly(err) ==
    ExecResult(<<>>, <<"grep: ">> \o (IF err.isError THEN err.message ELSE <<>>) \o <<NL>>, 2)

\* The message of the sole-target failure
fatalResult(err) ==
    ExecResult(<<>>,
               <<"grep: ">> \o (IF err.isError THEN err.message ELSE String(err)) \o <<NL>>,
               2)

\* A catch that returns at once whenever one mount path was asked for
isSoleTargetAmongMountPaths(local, openfs) == Len(openfs) = 1

\* The catch of vfs.grep returns at once
isSoleTarget(local, openfs) == Len(local) = 0 /\ Len(openfs) = 1

\* A loop that asks again for the path it has just asked for
sameTurn(next, n) == IF next = "server" THEN n ELSE 0

\* for (const p of openfsPaths): the index of the next turn
nextTurn(next, n) == IF next = "server" THEN n + 1 ELSE 0

\* The path and the pattern the current turn of the server-side loop sends
vfsPath == toVfsPath(mount, openfsPaths[k + 1])

serverPattern == buildServerPattern(joinWith(parsed.patterns, <<"|">>), parsed)

\* One turn of the server-side loop, vfs.grep answering with one of `outcomes`
serverTurn(outcomes) ==
    /\ LET p == openfsPaths[k + 1]
       IN  /\ grepCalls' = Append(grepCalls, <<serverPattern, vfsPath>>)
           /\ \E o \in outcomes :
                IF o.threw
                THEN /\ hadError' = (hadError \/ ~parsed.quiet)
                     /\ allResults' = allResults
                     /\ targets' = Append(targets, Target(p, "server", TRUE, o.err, <<>>, <<>>))
                     /\ IF isSoleTarget(localPaths, openfsPaths)
                        THEN pc' = "done" /\ out' = fatalResult(o.err) /\ k' = k
                        ELSE /\ pc' = afterTurn("server", k, openfsPaths)
                             /\ k' = nextTurn(pc', k)
                             /\ out' = out
                ELSE \E converted \in {convertServerMatches(o.matches, mount, re, parsed)} :
                         /\ allResults' = allResults \o converted
                         /\ targets' = Append(targets, Target(p, "server", FALSE, NoError, o.matches, converted))
                         /\ hadError' = hadError
                         /\ pc' = afterTurn("server", k, openfsPaths)
                         /\ k' = nextTurn(pc', k)
                         /\ out' = out
    /\ UNCHANGED <<mount, args, ctx, i, seenDoubleDash, parsed, roles, re, resolvedFiles,
                   openfsPaths, localPaths, multiFile, fsCalls, call, ret>>

\* Server-side grep for OpenFS paths: one turn of the loop
ServerStep == pc = "server" /\ serverTurn(Outcomes)

\* One turn of a loop that hands the path to localGrep
localTurn(loop, paths) ==
    LET p == paths[k + 1]
    IN  \E w \in {localGrep(p, re, parsed, ctx.withFileTypes)} :
        /\ fsCalls' = fsCalls \o w.calls
        /\ allResults' = IF w.threw THEN allResults ELSE allResults \o w.results
        /\ hadError' = IF w.threw THEN (hadError \/ ~parsed.quiet) ELSE hadError
        /\ targets' = Append(targets,
                             Target(p, "local", w.threw, NoError, <<>>,
                                    IF w.threw THEN <<>> ELSE w.results))
        /\ pc' = afterTurn(loop, k, paths)
        /\ k' = IF pc' = loop THEN k + 1 ELSE 0
        /\ UNCHANGED <<mount, args, ctx, i, seenDoubleDash, parsed, roles, re, resolvedFiles,
                       openfsPaths, localPaths, multiFile, grepCalls, out, call, ret>>

\* Fall back to local grep for OpenFS paths (complex flags)
FallbackStep == pc = "fallback" /\ localTurn("fallback", openfsPaths)

\* Local grep for non-OpenFS paths
LocalStep == pc = "local" /\ localTurn("local", localPaths)

\* A multiFile that stays what the arguments made it
detectMultiFileFromArgumentsOnly(mf, results) == mf

\* Detect multi-file from results if not already set
detectMultiFile(mf, results) ==
    IF ~mf /\ Len(results) > 0 THEN Len(fileSet(results, <<>>)) > 1 ELSE mf

\* The end of execute: multi-file detection, max count, output
Format ==
    /\ pc = "matched"
    /\ multiFile' = detectMultiFile(multiFile, allResults)
    /\ \E limited \in {applyMaxCount(allResults, parsed)} :
            out' = formatOutput(limited, parsed, multiFile', hadError)
    /\ pc' = "done"
    /\ UNCHANGED <<mount, args, ctx, i, seenDoubleDash, parsed, roles, re, resolvedFiles,
                   openfsPaths, localPaths, k, allResults, hadError, grepCalls, fsCalls,
                   targets, call, ret>>

Next ==
    \/ Invoke
    \/ ParseStep
    \/ Compile
    \/ Classify
    \/ ServerStep
    \/ FallbackStep
    \/ LocalStep
    \/ Format

Spec == Init /\ [][Next]_vars

----------------------------------------------------------------------------
(* Properties of the routing between vfs.grep and the local walk           *)

UnderMount(p) == p = mount \/ StartsWith(p, mount \o <<"/">>)

GateClosed == parsed.invertMatch \/ parsed.onlyMatching

\* The invocation has gone through its targets (or returned from the catch)
Searched == pc = "done" /\ resolvedFiles # <<>>

SentToGrep(p) ==
    \E c \in 1..Len(grepCalls) :
        grepCalls[c][2] = (IF p = mount THEN <<"/">> ELSE Slice(p, Len(mount)))

ReadLocally(p) == \E c \in 1..Len(fsCalls) : fsCalls[c][2] = p

ServedBy(p, via) == \E t \in 1..Len(targets) : targets[t].path = p /\ targets[t].via = via

\* C1: with -v or -o in force vfs.grep is never invoked and every file
\* argument is searched through the local file system; with neither, every
\* argument under the mount goes to vfs.grep and is not read locally
C1_GateRouting ==
    /\ GateClosed => grepCalls = <<>>
    /\ (Searched /\ GateClosed) =>
          \A n \in 1..Len(resolvedFiles) :
              /\ ServedBy(resolvedFiles[n], "local")
              /\ ReadLocally(resolvedFiles[n])
    /\ (Searched /\ ~GateClosed) =>
          \A n \in 1..Len(resolvedFiles) :
              UnderMount(resolvedFiles[n]) =>
                  /\ SentToGrep(resolvedFiles[n])
                  /\ ServedBy(resolvedFiles[n], "server")
                  /\ ~ServedBy(resolvedFiles[n], "local")
                  /\ ~ReadLocally(resolvedFiles[n])
    /\ (~GateClosed) =>
          \A t \in 1..Len(targets) :
              UnderMount(targets[t].path) =>
                  targets[t].via = "server" /\ ~ReadLocally(targets[t].path)

\* A -v search of a mount path that the local walk answered
C1_Witness_FallbackSearched ==
    /\ Searched
    /\ parsed.invertMatch
    /\ openfsPaths # <<>>
    /\ fsCalls # <<>>
    /\ out.exitCode = 0

\* A plain search of a mount path and a local path: one call, one walk
C1_Witness_ServerSearched ==
    /\ Searched
    /\ ~GateClosed
    /\ Len(grepCalls) = 1
    /\ localPaths # <<>>
    /\ fsCalls # <<>>
    /\ out.exitCode = 0

ThrownText(err) ==
    IF err.isNumber THEN <<"4", "2">> ELSE err.message

SoleTargetThrew ==
    /\ Len(resolvedFiles) = 1
    /\ Len(targets) >= 1
    /\ targets[1].via = "server"
    /\ targets[1].threw

\* C2: when the only target is a mount path and vfs.grep throws on it, the
\* invocation ends at once with exit code 2, empty stdout, and stderr
\* "grep: " + the message + newline
C2_SoleTargetFatal ==
    SoleTargetThrew =>
        /\ pc = "done"
        /\ Len(targets) = 1
        /\ fsCalls = <<>>
        /\ out.exitCode = 2
        /\ out.stdout = <<>>
        /\ out.stderr = <<"grep: ">> \o ThrownText(targets[1].err) \o <<NL>>

\* The sole target threw a value that is not an Error
C2_Witness_NonErrorThrown ==
    /\ SoleTargetThrew
    /\ targets[1].err.isNumber
    /\ out.exitCode = 2

RECURSIVE recordsOf(_, _)
recordsOf(ts, n) ==
    IF n > Len(ts) THEN <<>>
    ELSE (IF ts[n].threw THEN <<>> ELSE ts[n].results) \o recordsOf(ts, n + 1)

SomeTargetThrewAmongOthers ==
    /\ Len(resolvedFiles) > 1
    /\ \E t \in 1..Len(targets) : targets[t].via = "server" /\ targets[t].threw

\* C3: when vfs.grep throws on one mount path while another target was asked
\* for, the failing path gives no record, every other target is still
\* processed, and the invocation is not aborted
C3_FailureSkipped ==
    SomeTargetThrewAmongOthers =>
        /\ \A t \in 1..Len(targets) : targets[t].threw => targets[t].results = <<>>
        /\ allResults = recordsOf(targets, 1)
        /\ pc \in {"server", "local", "matched", "done"}
        /\ pc = "done" =>
              /\ [t \in 1..Len(targets) |-> targets[t].path] = openfsPaths \o localPaths
              /\ out.exitCode \in {0, 1}
              /\ out.stderr = <<>>

\* The first mount path threw and the search went on to print the records
\* of the local path
C3_Witness_OthersPrinted ==
    /\ SomeTargetThrewAmongOthers
    /\ pc = "done"
    /\ targets[1].threw
    /\ Len(targets) >= 2
    /\ targets[Len(targets)].via = "local"
    /\ out.stdout # <<>>

\* C4: no result of an invocation has both stdout and stderr non-empty
C4_StdoutXorStderr == out.stdout = <<>> \/ out.stderr = <<>>

\* A result with matches on stdout after a target had failed
C4_Witness_MatchesAfterFailure ==
    /\ pc = "done"
    /\ hadError
    /\ out.stdout # <<>>
    /\ out.exitCode = 0

----------------------------------------------------------------------------
(* formatOutput and applyMaxCount on their own: the records and options    *)
(* are drawn by the initial state, the one action applies the function     *)

MaxRecords == 3

MaxCounted == 4

MaxLimit == 2

\* Records of two files and of stdin (no file name); one has no matchText
Records ==
    { MatchLine(<<"f">>, 1, <<"a", "b">>, TRUE, <<"a">>),
      MatchLine(<<"f">>, 2, <<"b">>, FALSE, <<>>),
      MatchLine(<<"g">>, 1, <<"a">>, TRUE, <<"a">>),
      MatchLine(<<>>, 3, <<"a">>, TRUE, <<"a">>) }

RecordSeqs(max) == UNION { [1..n -> Records] : n \in 0..max }

FormatOpts ==
    { [NewGrepArgs EXCEPT !.quiet = f.q, !.filesWithMatches = f.l,
                          !.filesWithoutMatch = f.L, !.count = f.c,
                          !.lineNumber = f.n, !.noFilename = f.h,
                          !.onlyMatching = f.o]
      : f \in [q : BOOLEAN, l : BOOLEAN, L : BOOLEAN, c : BOOLEAN, n : BOOLEAN,
               h : BOOLEAN, o : BOOLEAN] }

Uninvoked ==
    /\ mount = normalizeMount(<<"/", "d", "/">>)
    /\ Idle
    /\ ret = NoReturn

InitFormat ==
    /\ Uninvoked
    /\ \E m \in RecordSeqs(MaxRecords), o \in FormatOpts, mf \in BOOLEAN, he \in BOOLEAN :
          call = [fn |-> "formatOutput",
                  input |-> [matches |-> m, opts |-> o, multiFile |-> mf, hadError |-> he]]

FormatCall ==
    /\ call.fn = "formatOutput"
    /\ ret.fn = "none"
    /\ ret' = [fn |-> "formatOutput",
               value |-> formatOutput(call.input.matches, call.input.opts,
                                      call.input.multiFile, call.input.hadError)]
    /\ UNCHANGED <<mount, call, execVars>>

SpecFormat == InitFormat /\ [][FormatCall]_vars

InitMaxCount ==
    /\ Uninvoked
    /\ \E m \in RecordSeqs(MaxCounted), n \in 0..MaxLimit :
          call = [fn |-> "applyMaxCount",
                  input |-> [matches |-> m, opts |-> [NewGrepArgs EXCEPT !.maxCount = n]]]

MaxCountCall ==
    /\ call.fn = "applyMaxCount"
    /\ ret.fn = "none"
    /\ ret' = [fn |-> "applyMaxCount",
               value |-> applyMaxCount(call.input.matches, call.input.opts)]
    /\ UNCHANGED <<mount, call, execVars>>

SpecMaxCount == InitMaxCount /\ [][MaxCountCall]_vars

\* The mode the priority quiet > -l > -L > -c > normal gives the options
ModeOf(opts) ==
    IF opts.quiet THEN "quiet"
    ELSE IF opts.filesWithMatches THEN "filesWithMatches"
    ELSE IF opts.filesWithoutMatch THEN "filesWithoutMatch"
    ELSE IF opts.count THEN "count"
    ELSE "normal"

\* What one mode alone prints and returns
ModeResult(mode, matches, opts, showFile) ==
    CASE mode = "quiet" -> formatQuiet(matches)
      [] mode = "filesWithMatches" -> formatFilesWithMatches(matches)
      [] mode = "filesWithoutMatch" -> formatFilesWithoutMatch(matches)
      [] mode = "count" -> formatCount(matches, showFile)
      [] mode = "normal" -> formatNormal(matches, opts, showFile)

\* C5: for every combination of quiet, filesWithMatches, filesWithoutMatch
\* and count, the result of formatOutput is the result of exactly the mode
\* of highest priority among those set (quiet > -l > -L > -c > normal); the
\* flags of lower priority change neither output nor exit code
C5_ModePriority ==
    ret.fn = "formatOutput" =>
        LET in == call.input
            showFile == in.multiFile /\ ~in.opts.noFilename
            lower == [in.opts EXCEPT !.quiet = (ModeOf(in.opts) = "quiet"),
                         !.filesWithMatches = (ModeOf(in.opts) = "filesWithMatches"),
                         !.filesWithoutMatch = (ModeOf(in.opts) = "filesWithoutMatch"),
                         !.count = (ModeOf(in.opts) = "count")]
        IN  /\ ret.value = ModeResult(ModeOf(in.opts), in.matches, in.opts, showFile)
            /\ ret.value = formatOutput(in.matches, lower, in.multiFile, in.hadError)

\* -L and -c both set, on records the two modes answer differently
C5_Witness_WithoutMatchOverCount ==
    /\ ret.fn = "formatOutput"
    /\ ~call.input.opts.quiet
    /\ ~call.input.opts.filesWithMatches
    /\ call.input.opts.filesWithoutMatch
    /\ call.input.opts.count
    /\ Len(call.input.matches) > 1
    /\ ret.value.stdout = <<>>
    /\ ret.value.exitCode = 1

\* The place of record j among the records of its file
rankInFile(matches, j) ==
    Cardinality({h \in 1..j : matches[h].file = matches[j].file})

RECURSIVE keepRanked(_, _, _)
keepRanked(matches, j, limit) ==
    IF j > Len(matches) THEN <<>>
    ELSE (IF rankInFile(matches, j) <= limit THEN <<matches[j]>> ELSE <<>>)
         \o keepRanked(matches, j + 1, limit)

Min(a, b) == IF a < b THEN a ELSE b

\* C6: with maxCount = N >= 1 applyMaxCount returns the subsequence that
\* keeps, of each file, its first min(N, k) records in the order met, and
\* with maxCount = 0 it returns the records unchanged
C6_MaxCountPerFile ==
    ret.fn = "applyMaxCount" =>
        LET matches == call.input.matches
            N == call.input.opts.maxCount
        IN  IF N = 0 THEN ret.value = matches
            ELSE /\ ret.value = keepRanked(matches, 1, N)
                 /\ \A j \in 1..Len(matches) :
                       countOf(ret.value, matches[j].file)
                           = Min(N, countOf(matches, matches[j].file))

\* One file went over its limit and a record of another file, met later,
\* was kept
C6_Witness_OtherFileKept ==
    /\ ret.fn = "applyMaxCount"
    /\ call.input.opts.maxCount = 1
    /\ Len(call.input.matches) = 3
    /\ call.input.matches[1].file = <<"f">>
    /\ call.input.matches[2].file = <<"f">>
    /\ call.input.matches[3].file = <<"g">>
    /\ ret.value = <<call.input.matches[1], call.input.matches[3]>>

----------------------------------------------------------------------------
(* Properties of the lines printed in normal mode                          *)

NormalMode(opts) ==
    ~opts.quiet /\ ~opts.filesWithMatches /\ ~opts.filesWithoutMatch /\ ~opts.count

SpanFiles(records) ==
    \E a, b \in 1..Len(records) : records[a].file # records[b].file

FilePrefixDue ==
    /\ ~parsed.noFilename
    /\ \/ Len(parsed.files) > 1
       \/ parsed.recursive
       \/ SpanFiles(allResults)

PrefixedLine(m) ==
    (IF FilePrefixDue THEN m.file \o <<":">> ELSE <<>>)
    \o (IF parsed.lineNumber THEN numToString(m.lineNumber) \o <<":">> ELSE <<>>)
    \o (IF ~parsed.onlyMatching THEN m.line
        ELSE IF m.matchText.defined THEN m.matchText.text ELSE <<>>)

RECURSIVE PrefixedLines(_, _)
PrefixedLines(records, j) ==
    IF j > Len(records) THEN <<>>
    ELSE PrefixedLine(records[j]) \o <<NL>> \o PrefixedLines(records, j + 1)

\* C7: in normal mode every printed line carries the "{file}:" prefix iff
\* noFilename is unset and (more than one file argument was given, or
\* recursive is set, or the collected records span more than one file), and
\* the "{lineNumber}:" prefix iff lineNumber is set
C7_LinePrefixes ==
    (Searched /\ NormalMode(parsed) /\ out.exitCode = 0) =>
        out.stdout = PrefixedLines(applyMaxCount(allResults, parsed), 1)

\* One argument, not recursive, answered with records of two files: the
\* lines carry the file prefix
C7_Witness_PrefixFromRecords ==
    /\ Searched
    /\ NormalMode(parsed)
    /\ out.exitCode = 0
    /\ Len(parsed.files) = 1
    /\ ~parsed.recursive
    /\ ~parsed.noFilename
    /\ SpanFiles(allResults)

\* One argument, not recursive, records of one file: no file prefix
C7_Witness_NoPrefix ==
    /\ Searched
    /\ NormalMode(parsed)
    /\ out.exitCode = 0
    /\ Len(parsed.files) = 1
    /\ ~parsed.recursive
    /\ ~parsed.noFilename
    /\ ~SpanFiles(allResults)
    /\ out.stdout = allResults[1].line \o <<NL>>

----------------------------------------------------------------------------
(* Properties of the translation between mount paths and substrate paths   *)

\* The path handed to vfs.grep for the target served t-th: the server loop
\* runs first, so call t belongs to target t
SentFor(t) == grepCalls[t][2]

WithoutMount(p) == IF p = mount THEN <<"/">> ELSE Slice(p, Len(mount))

\* The translation of the target is the mount path less its prefix, "/" for
\* the mount itself, never empty
SentIsSuffix(t) ==
    /\ SentFor(t) = WithoutMount(targets[t].path)
    /\ SentFor(t) # <<>>

\* C8 as stated: every remote-eligible path p goes to vfs.grep as p less the
\* mount prefix ("/" for the mount itself), every returned path comes back
\* as mount prefix + returned path, and p translated there and back is p
C8_Original ==
    \A t \in 1..Len(targets) :
        (targets[t].via = "server" /\ ~parsed.ignoreCase) =>
            /\ SentIsSuffix(t)
            /\ Len(targets[t].results) = Len(targets[t].raw)
            /\ \A j \in 1..Len(targets[t].raw) :
                  targets[t].results[j].file = mount \o targets[t].raw[j].path
            /\ mount \o SentFor(t) = targets[t].path

\* C8, amended: every remote-eligible path p goes to vfs.grep as p less the
\* mount prefix ("/" for the mount itself, never empty); every returned path
\* comes back as mount prefix + returned path, except the returned path "/",
\* which comes back as the mount point itself; p translated there and back
\* is p, except mount + "/", which comes back as the mount point
C8_PathTranslation ==
    \A t \in 1..Len(targets) :
        (targets[t].via = "server" /\ ~parsed.ignoreCase) =>
            LET p == targets[t].path
                back == IF SentFor(t) = <<"/">> THEN mount ELSE mount \o SentFor(t)
            IN  /\ SentIsSuffix(t)
                /\ Len(targets[t].results) = Len(targets[t].raw)
                /\ \A j \in 1..Len(targets[t].raw) :
                      targets[t].results[j].file =
                          IF targets[t].raw[j].path = <<"/">> THEN mount
                          ELSE mount \o targets[t].raw[j].path
                /\ IF p = mount \o <<"/">> THEN back = mount ELSE back = p

\* The mount point with a trailing slash was searched and the substrate
\* answered with a record at "/"
C8_Witness_TrailingSlash ==
    \E t \in 1..Len(targets) :
        /\ targets[t].via = "server"
        /\ targets[t].path = mount \o <<"/">>
        /\ SentFor(t) = <<"/">>
        /\ Len(targets[t].raw) = 1
        /\ targets[t].raw[1].path = <<"/">>
        /\ targets[t].results[1].file = mount

----------------------------------------------------------------------------
(* The parser on its own, over a richer set of tokens                      *)

\* Flags known and unknown, short and long, with and without their value,
\* the separator, a pattern, a number and a lone dash
ParseTokens ==
    { <<"-", "n">>,
      <<"-", "e">>,
      <<"-", "m">>,
      <<"-", "-">>,
      <<"-", "z">>,
      <<"-", "-", "c", "o", "l", "o", "r">>,
      <<"-", "-", "c", "o", "u", "n", "t">>,
      <<"-", "-", "m", "a", "x", "-", "c", "o", "u", "n", "t", "=", "2">>,
      <<"-", "-", "m", "a", "x", "-", "c", "o", "u", "n", "t", "=">>,
      <<"-", "n", "e">>,
      <<"-", "e", "z">>,
      <<"-", "n", "m">>,
      <<"-", "m", "2">>,
      <<"-", "n", "z">>,
      <<"a">>,
      <<"2">>,
      <<"-">> }

ParseArgvs == UNION { [1..n -> ParseTokens] : n \in 0..MaxArgs }

InitParse == Uninvoked /\ call = NoCall

InvokeParse ==
    /\ pc = "idle"
    /\ \E a \in ParseArgvs : args' = a
    /\ ctx' = [stdin |-> <<>>, cwd |-> <<"/", "l">>, withFileTypes |-> FALSE]
    /\ pc' = "parse"
    /\ UNCHANGED <<mount, i, seenDoubleDash, parsed, roles, re, resolvedFiles, openfsPaths,
                   localPaths, k, allResults, hadError, multiFile, grepCalls, fsCalls,
                   targets, out, call, ret>>

SpecParse == InitParse /\ [][InvokeParse \/ ParseStep \/ Compile]_vars

----------------------------------------------------------------------------
(* Properties of the parser                                                *)

PatternsBefore(j) == Cardinality({h \in 1..(j - 1) : roles[h] = "pattern"})

LastOf(seq, n) == SubSeq(seq, Len(seq) - n + 1, Len(seq))

NoFlagAfter(j) == \A h \in (j + 1)..Len(roles) : roles[h] \in {"pattern", "file"}

C9_Witness_PatternBefore ==
    /\ pc = "compiled"
    /\ args = << <<"a">>, <<"-", "-">>, <<"-", "n">> >>
    /\ parsed.patterns = << <<"a">> >>
    /\ parsed.files = << <<"-", "n">> >>
    /\ ~parsed.lineNumber


\* A long option that is no flag of grep and no --max-count=
UnknownLong(tok) ==
    /\ StartsWith(tok, <<"-", "-">>)
    /\ tok # <<"-", "-">>
    /\ ~IsLongFlag(tok)
    /\ ~StartsWith(tok, MaxCountPrefix)

ShortLed(tok) == StartsWith(tok, <<"-">>) /\ Len(tok) > 1 /\ ~StartsWith(tok, <<"-", "-">>)

\* A short token whose first letter that is no boolean flag is neither the
\* e nor the m that takes a value
UnknownShort(tok) ==
    /\ ShortLed(tok)
    /\ \E j \in 2..Len(tok) :
          /\ <<"-", tok[j]>> \notin BOOLEAN_FLAGS
          /\ tok[j] \notin {"e", "m"}
          /\ \A h \in 2..(j - 1) : <<"-", tok[h]>> \in BOOLEAN_FLAGS

\* Boolean flags closed by an e or m that has nothing after it
EndsOnValueFlag(tok) ==
    /\ ShortLed(tok)
    /\ tok[Len(tok)] \in {"e", "m"}
    /\ \A h \in 2..(Len(tok) - 1) : <<"-", tok[h]>> \in BOOLEAN_FLAGS

\* The parser stands, outside the reach of a separator, on an unknown flag
\* with no pattern claimed yet, or on a -e, -m, --max-count= without value
UsageErrorDue ==
    /\ pc = "parse"
    /\ i < Len(args)
    /\ ~seenDoubleDash
    /\ LET tok == args[i + 1]
           isLast == i + 1 = Len(args)
       IN  \/ Len(parsed.patterns) = 0 /\ (UnknownLong(tok) \/ UnknownShort(tok))
           \/ isLast /\ tok \in { <<"-", "e">>, <<"-", "m">> }
           \/ isLast /\ Len(parsed.patterns) = 0 /\ EndsOnValueFlag(tok)
           \/ tok = MaxCountPrefix

\* C10: an unknown flag (short or long) met before a pattern is claimed, or
\* a -e, -m or --max-count= whose value is missing, ends the invocation with
\* exit code 2, empty stdout and non-empty stderr
C10_UsageErrors ==
    [][UsageErrorDue =>
          /\ pc' = "done"
          /\ out'.exitCode = 2
          /\ out'.stdout = <<>>
          /\ out'.stderr # <<>>]_vars

\* -n was applied, then --color was refused
C10_Witness_UnknownLongRefused ==
    /\ pc = "done"
    /\ Len(args) >= 2
    /\ i = 1
    /\ parsed.lineNumber
    /\ args[2] = <<"-", "-", "c", "o", "l", "o", "r">>
    /\ out.exitCode = 2
    /\ out.stderr = <<"grep: unknown option: ">> \o args[2] \o <<NL>>

\* A pattern was claimed and the closing -m has no value
C10_Witness_MissingValue ==
    /\ pc = "done"
    /\ Len(args) = 2
    /\ i = 1
    /\ parsed.patterns = << <<"a">> >>
    /\ args[2] = <<"-", "m">>
    /\ out.exitCode = 2
    /\ out.stdout = <<>>
    /\ out.stderr # <<>>


\* A dash-led token that is no flag of grep, in the short or the long form
Unrecognized(tok) == UnknownLong(tok) \/ UnknownShort(tok)

\* The parser gave up on token i + 1
ParseFailed == pc = "done" /\ out.exitCode = 2 /\ i < Len(args)

\* C11 as stated: once a pattern has been claimed, a later dash-led token
\* that is no recognized flag, short or long, never makes the parse fail,
\* and is never taken for a flag: it goes to the file list (unless it is
\* the value a preceding -e or -m takes)
C11_Original ==
    /\ (ParseFailed /\ Len(parsed.patterns) > 0) => ~Unrecognized(args[i + 1])
    /\ \A j \in 1..Len(roles) :
          (Unrecognized(args[j]) /\ PatternsBefore(j) > 0) =>
              roles[j] \in {"file", "pattern", "value"}

\* What holds of the short form alone: after the pattern an unrecognized
\* short token is appended to the file list and the parse goes on
C11_ShortFormPermissive ==
    /\ (ParseFailed /\ Len(parsed.patterns) > 0) => ~UnknownShort(args[i + 1])
    /\ \A j \in 1..Len(roles) :
          (UnknownShort(args[j]) /\ PatternsBefore(j) > 0) =>
              roles[j] \in {"file", "pattern", "value"}

\* The pattern a, then --color: the parse failed on the long token
C11_Witness_LongRefusedAfterPattern ==
    /\ ParseFailed
    /\ i = 1
    /\ parsed.patterns = << <<"a">> >>
    /\ args[2] = <<"-", "-", "c", "o", "l", "o", "r">>
    /\ out.stderr = <<"grep: unknown option: ">> \o args[2] \o <<NL>>

----------------------------------------------------------------------------
(* Properties of the stdin branch                                          *)

\* execute went past the regex and found no file argument
NoFileArgument ==
    /\ pc = "done"
    /\ re # NoRegex
    /\ Len(parsed.files) = 0

StdinRecords == matchLines(<<>>, splitLines(ctx.stdin), 1, re, parsed)

RECURSIVE BareLines(_, _)
BareLines(records, j) ==
    IF j > Len(records) THEN <<>>
    ELSE (IF parsed.lineNumber THEN numToString(records[j].lineNumber) \o <<":">> ELSE <<>>)
         \o (IF ~parsed.onlyMatching THEN records[j].line
             ELSE IF records[j].matchText.defined THEN records[j].matchText.text ELSE <<>>)
         \o <<NL>> \o BareLines(records, j + 1)

\* C12: with no file argument and a non-empty stdin the matcher runs over
\* the lines of stdin only: no vfs.grep, no fs operation, and the lines are
\* printed without a file prefix (the count is printed bare); with an
\* empty stdin the invocation is a usage error with exit code 2
C12_StdinBranch ==
    NoFileArgument =>
        /\ grepCalls = <<>>
        /\ fsCalls = <<>>
        /\ targets = <<>>
        /\ IF ctx.stdin = <<>>
           THEN out.exitCode = 2 /\ out.stdout = <<>> /\ out.stderr # <<>>
           ELSE /\ out.stderr = <<>>
                /\ \A j \in 1..Len(StdinRecords) : StdinRecords[j].file = <<>>
                /\ parsed.quiet => out.stdout = <<>>
                /\ ~parsed.quiet => out.exitCode = (IF Len(StdinRecords) > 0 THEN 0 ELSE 1)
                /\ NormalMode(parsed) => out.stdout = BareLines(StdinRecords, 1)
                /\ (parsed.count /\ ~parsed.quiet) =>
                      out.stdout = numToString(IF parsed.maxCount > 0
                                               THEN Min(parsed.maxCount, Len(StdinRecords))
                                               ELSE Len(StdinRecords)) \o <<NL>>

\* A recursive search with line numbers over stdin printed its matches
C12_Witness_StdinSearched ==
    /\ NoFileArgument
    /\ ctx.stdin # <<>>
    /\ parsed.recursive
    /\ out.exitCode = 0
    /\ out.stdout = <<"1", ":", "a", "b", NL>>

----------------------------------------------------------------------------
(* The line loop of grepFile and grepStdin on its own: one content, one     *)
(* pattern and one set of flags, matched without and with -v                *)

\* Contents with and without a final newline, with an empty line, empty
Contents ==
    { <<"a", "b", NL, "b", NL, "A", " ", "a", NL>>,
      <<"a", "a", NL, NL, "b">>,
      <<>>,
      <<"a", " ", "b", NL, "a", "b", NL>> }

SearchPatterns ==
    { <<"a">>, <<"b">>, <<".">>, <<"a", "|", "b">>, <<>> }

MatchOpts ==
    { [NewGrepArgs EXCEPT !.ignoreCase = f.i, !.onlyMatching = f.o,
                          !.wordRegexp = f.w, !.fixedStrings = f.F]
      : f \in [i : BOOLEAN, o : BOOLEAN, w : BOOLEAN, F : BOOLEAN] }

InitLines ==
    /\ Uninvoked
    /\ \E c \in Contents, p \in SearchPatterns, o \in MatchOpts :
          call = [fn |-> "matchLines",
                  input |-> [content |-> c, pattern |-> p, opts |-> o]]

LinesCall ==
    /\ call.fn = "matchLines"
    /\ ret.fn = "none"
    /\ \E rx \in {buildRegex(call.input.pattern, call.input.opts)} :
       \E lines \in {splitLines(call.input.content)} :
          ret' = [fn |-> "matchLines",
                  value |-> [plain |-> matchLines(<<"f">>, lines, 1, rx, call.input.opts),
                             inverted |-> matchLines(<<"f">>, lines, 1, rx,
                                             [call.input.opts EXCEPT !.invertMatch = TRUE])]]
    /\ UNCHANGED <<mount, call, execVars>>

SpecLines == InitLines /\ [][LinesCall]_vars

LineNumbers(records) == { records[j].lineNumber : j \in 1..Len(records) }

TimesReported(records, n) == Cardinality({ j \in 1..Len(records) : records[j].lineNumber = n })

\* The number of lines of a content: the newlines, and one more for a last
\* line that no newline ends
LineCount(content) ==
    Cardinality({ j \in 1..Len(content) : content[j] = NL })
    + (IF content # <<>> /\ content[Len(content)] # NL THEN 1 ELSE 0)

\* Every line is reported by exactly one of the two runs
Complementary ==
    /\ LineNumbers(ret.value.plain) \cap LineNumbers(ret.value.inverted) = {}
    /\ LineNumbers(ret.value.plain) \cup LineNumbers(ret.value.inverted)
          = 1..LineCount(call.input.content)

\* C13 as stated: the lines reported with -v are the complement of the
\* lines reported without it, and each run reports a line at most once
C13_Original ==
    ret.fn = "matchLines" =>
        /\ Complementary
        /\ \A n \in 1..LineCount(call.input.content) :
              /\ TimesReported(ret.value.plain, n) <= 1
              /\ TimesReported(ret.value.inverted, n) <= 1

\* C13, amended: the lines reported with -v are the complement of the
\* lines reported without it; the run with -v reports a line at most once,
\* and so does the run without -v unless -o is set, when it reports a
\* matching line once per match
C13_InvertComplement ==
    ret.fn = "matchLines" =>
        /\ Complementary
        /\ \A n \in 1..LineCount(call.input.content) :
              /\ TimesReported(ret.value.inverted, n) <= 1
              /\ ~call.input.opts.onlyMatching => TimesReported(ret.value.plain, n) <= 1

\* With -o a line matching twice is reported twice, and -v reports the rest
C13_Witness_TwiceWithOnlyMatching ==
    /\ ret.fn = "matchLines"
    /\ call.input.opts.onlyMatching
    /\ TimesReported(ret.value.plain, 1) = 2
    /\ Len(ret.value.inverted) >= 1
    /\ LineCount(call.input.content) = 3

----------------------------------------------------------------------------
(* A substrate that greps: the in-memory Vfs of the tests, holding the      *)
(* files the host shows under the mount point                               *)

\* The files of the substrate, in the order they were stored
VfsPaths == << <<"/", "a">>, <<"/", "b">> >>

vfsContent(path) == fsNode(<<"/", "d">> \o path).content

\* normalizePath, for paths without ".", ".." or doubled slashes
normalizePath(p) ==
    IF Len(p) > 1 /\ EndsWith(p, <<"/">>) THEN DropLast(p) ELSE p

\* The lines of one file that the regex finds, from line n on
RECURSIVE vfsGrepLines(_, _, _, _)
vfsGrepLines(path, lines, n, rx) ==
    IF n > Len(lines) THEN <<>>
    ELSE (IF regexExec(rx, lines[n], 0).found
          THEN <<GrepMatch(path, n, lines[n])>> ELSE <<>>)
         \o vfsGrepLines(path, lines, n + 1, rx)

RECURSIVE vfsGrepFiles(_, _, _)
vfsGrepFiles(f, rx, searchPrefix) ==
    IF f > Len(VfsPaths) THEN <<>>
    ELSE (IF StartsWith(VfsPaths[f], searchPrefix) \/ VfsPaths[f] = searchPrefix
          THEN With(splitNL(vfsContent(VfsPaths[f]), <<>>, <<>>),
                    LAMBDA lines : vfsGrepLines(VfsPaths[f], lines, 1, rx))
          ELSE <<>>)
         \o vfsGrepFiles(f + 1, rx, searchPrefix)

\* grep(pattern, path) of the substrate: it throws what new RegExp throws
vfsGrep(pattern, path) ==
    LET rx == buildRegex(pattern, NewGrepArgs)
    IN  IF rx.threw
        THEN { [threw |-> TRUE,
                err |-> [isError |-> TRUE, message |-> <<"Invalid regular expression">>,
                         isNumber |-> FALSE, num |-> 0],
                matches |-> <<>>] }
        ELSE { [threw |-> FALSE, err |-> NoError,
                matches |-> vfsGrepFiles(1, rx, normalizePath(path))] }

\* Flags that pass the gate, a pattern, and paths under the mount point
GrepTokens ==
    { <<"-", "i">>,
      <<"-", "r", "n">>,
      <<"-", "c">>,
      <<"-", "w">>,
      <<"-", "w", "F">>,
      <<"a">>,
      <<"/", "d">>,
      <<"/", "d", "/">>,
      <<"/", "d", "/", "a">>,
      <<"/", "d", "/", "b">> }

GrepArgvs == UNION { [1..n -> GrepTokens] : n \in 0..MaxArgs }

InvokeGrep ==
    /\ pc = "idle"
    /\ \E a \in GrepArgvs : args' = a
    /\ ctx' = [stdin |-> <<>>, cwd |-> <<"/", "d">>, withFileTypes |-> FALSE]
    /\ pc' = "parse"
    /\ UNCHANGED <<mount, i, seenDoubleDash, parsed, roles, re, resolvedFiles, openfsPaths,
                   localPaths, k, allResults, hadError, multiFile, grepCalls, fsCalls,
                   targets, out, call, ret>>

\* Server-side grep answered by the substrate that greps
GrepServerStep == pc = "server" /\ serverTurn(vfsGrep(serverPattern, vfsPath))

SpecGrep ==
    InitParse
    /\ [][InvokeGrep \/ ParseStep \/ Compile \/ Classify \/ GrepServerStep \/ Format]_vars

----------------------------------------------------------------------------
(* C14: remote delegation against the Local Matcher                         *)

\* What the Local Matcher gathers over `paths`, from path n on
RECURSIVE localGather(_, _, _)
localGather(paths, n, acc) ==
    IF n > Len(paths) THEN acc
    ELSE With(localGrep(paths[n], re, parsed, ctx.withFileTypes),
              LAMBDA w :
                localGather(paths, n + 1,
                            [results |-> IF w.threw THEN acc.results
                                         ELSE acc.results \o w.results,
                             hadError |-> IF w.threw THEN (acc.hadError \/ ~parsed.quiet)
                                          ELSE acc.hadError]))

\* The result execute gives when the same paths go to the Local Matcher
LocalOutcome ==
    With(localGather(openfsPaths, 1, [results |-> <<>>, hadError |-> FALSE]),
         LAMBDA g :
           formatOutput(applyMaxCount(g.results, parsed), parsed,
                        detectMultiFile(Len(resolvedFiles) > 1 \/ parsed.recursive, g.results),
                        g.hadError))

\* The invocation was served by the substrate alone, and it is over
Delegated ==
    /\ pc = "done"
    /\ Len(targets) > 0
    /\ \A n \in 1..Len(targets) : targets[n].via = "server" /\ ~targets[n].threw

\* C14: whenever the flags pass the capability gate and every file or
\* directory argument lies under the mount point, delegation to a substrate
\* that greps gives the stdout and the exit code the Local Matcher gives for
\* the same paths over the same file contents.
C14_Original ==
    Delegated =>
        /\ out.stdout = LocalOutcome.stdout
        /\ out.exitCode = LocalOutcome.exitCode

----------------------------------------------------------------------------
(* C15: the order of the records                                            *)

\* The file argument whose target gave record u of allResults, counting the
\* records of the targets from target n on
RECURSIVE ownerOf(_, _)
ownerOf(u, n) ==
    IF u <= Len(targets[n].results) THEN targets[n].path
    ELSE ownerOf(u - Len(targets[n].results), n + 1)

\* Every file argument was searched, each named once
AllSearchedOnce ==
    /\ pc = "done"
    /\ Len(targets) = Len(resolvedFiles)
    /\ Len(targets) > 1
    /\ allResults = recordsOf(targets, 1)
    /\ \A x, y \in 1..Len(resolvedFiles) : resolvedFiles[x] = resolvedFiles[y] => x = y

\* C15: for any two file arguments a before b on the command line, every
\* record of a precedes every record of b in the records handed to the
\* output, also when a is a local path and b lies under the mount point.
C15_Original ==
    AllSearchedOnce =>
        \A x, y \in 1..Len(resolvedFiles) :
            \A u, v \in 1..Len(allResults) :
                (x < y /\ ownerOf(u, 1) = resolvedFiles[x] /\ ownerOf(v, 1) = resolvedFiles[y])
                    => u < v

\* The records follow the order in which execute serves the targets: the
\* paths under the mount point in declaration order, then the local paths
\* in declaration order
C15_LoopOrder ==
    AllSearchedOnce =>
        /\ [t \in 1..Len(targets) |-> targets[t].path] = openfsPaths \o localPaths
        /\ \A u, v \in 1..Len(allResults) :
              \A x, y \in 1..Len(targets) :
                 (x < y /\ ownerOf(u, 1) = targets[x].path /\ ownerOf(v, 1) = targets[y].path)
                    => u < v

\* A local file named before a mount path, its records printed after
C15_Witness_LocalAfterMount ==
    /\ AllSearchedOnce
    /\ args = <<<<"a">>, <<"/", "d", "x">>, <<"/", "d", "/", "a">>>>
    /\ Len(allResults) = 2
    /\ allResults[1].file = <<"/", "d", "/", "a">>
    /\ allResults[2].file = <<"/", "d", "x">>
    /\ out.stdout = <<"/", "d", "/", "a", ":", "a", NL, "/", "d", "x", ":", "b", "a", NL>>

----------------------------------------------------------------------------
(* C16: the newline that ends stdout                                        *)

Formatted == ret.fn = "formatOutput"

\* How many lines the mode of the options prints for the records
OutputLines(matches, opts) ==
    CASE ModeOf(opts) \in {"quiet", "filesWithoutMatch"} -> 0
      [] ModeOf(opts) = "filesWithMatches" -> Len(fileSet(matches, <<>>))
      [] ModeOf(opts) = "count" ->
            IF matches = <<>> THEN 1 ELSE Len(fileSet(matches, <<>>))
      [] OTHER -> Len(matches)

Newlines(s) == Cardinality({j \in 1..Len(s) : s[j] = NL})

EndsWithOneNewline(s) ==
    /\ Len(s) >= 1
    /\ s[Len(s)] = NL
    /\ Len(s) >= 2 => s[Len(s) - 1] # NL

\* The text of the last line printed is empty: a record whose shown text is
\* empty and has no prefix, or a file with no name listed by -l
LastLineEmpty(matches, opts, mf) ==
    /\ matches # <<>>
    /\ \/ /\ ModeOf(opts) = "filesWithMatches"
          /\ With(fileSet(matches, <<>>), LAMBDA files : files[Len(files)] = <<>>)
       \/ /\ ModeOf(opts) = "normal"
          /\ formatLine(matches[Len(matches)], opts, mf /\ ~opts.noFilename) = <<>>

\* C16 as stated: every non-empty stdout ends with exactly one newline
\* character, never two or more, and no output is the empty string.
C16_Original ==
    Formatted =>
        /\ ret.value.stdout # <<>> => EndsWithOneNewline(ret.value.stdout)
        /\ OutputLines(call.input.matches, call.input.opts) = 0 => ret.value.stdout = <<>>

\* C16: every line of stdout is ended by exactly one newline character, so a
\* non-empty stdout ends with a newline and holds as many newlines as lines;
\* it ends with two newlines exactly when more than one line is printed and
\* the last one is empty; no output is the empty string.
C16_TrailingNewline ==
    Formatted =>
        \E s \in {ret.value.stdout} :
            /\ s # <<>> => s[Len(s)] = NL
            /\ Newlines(s) = OutputLines(call.input.matches, call.input.opts)
            /\ OutputLines(call.input.matches, call.input.opts) = 0 => s = <<>>
            /\ (Len(s) >= 2 /\ s[Len(s)] = NL /\ s[Len(s) - 1] = NL)
                  <=> /\ OutputLines(call.input.matches, call.input.opts) > 1
                      /\ LastLineEmpty(call.input.matches, call.input.opts,
                                       call.input.multiFile)

\* -v with -o: the second record has no match text, its line is empty
C16_Witness_EmptyLastLine ==
    /\ Formatted
    /\ call.input.opts = [NewGrepArgs EXCEPT !.onlyMatching = TRUE]
    /\ Len(call.input.matches) = 2
    /\ ~call.input.matches[2].matchText.defined
    /\ ret.value.stdout = <<"a", NL, NL>>

----------------------------------------------------------------------------
(* C17: filesWithMatches (-l)                                               *)

FilesOf(matches) == {matches[j].file : j \in 1..Len(matches)}

\* Where a file is first seen among the records
FirstSeen(matches, f) ==
    CHOOSE j \in 1..Len(matches) :
        /\ matches[j].file = f
        /\ \A h \in 1..(j - 1) : matches[h].file # f

\* The files of the records, each once, ordered by where they are first seen
InFirstSeenOrder(matches) ==
    [r \in 1..Cardinality(FilesOf(matches)) |->
        CHOOSE f \in FilesOf(matches) :
            Cardinality({g \in FilesOf(matches) :
                            FirstSeen(matches, g) <= FirstSeen(matches, f)}) = r]

\* The lines, each followed by a newline
RECURSIVE Terminated(_)
Terminated(lines) ==
    IF lines = <<>> THEN <<>> ELSE lines[1] \o <<NL>> \o Terminated(Tail(lines))

\* C17: in -l mode stdout holds one line per distinct file that has a
\* record, each file once, in the order the files are first seen among the
\* records, with exit code 0; with no record stdout is empty and the exit
\* code is 1.
C17_FilesWithMatches ==
    (Formatted /\ ModeOf(call.input.opts) = "filesWithMatches") =>
        /\ ret.value.stdout = Terminated(InFirstSeenOrder(call.input.matches))
        /\ ret.value.stderr = <<>>
        /\ ret.value.exitCode = IF call.input.matches = <<>> THEN 1 ELSE 0

\* Three records of two files, the second file seen between two records of
\* the first
C17_Witness_ListedOnce ==
    /\ Formatted
    /\ ModeOf(call.input.opts) = "filesWithMatches"
    /\ Len(call.input.matches) = 3
    /\ call.input.matches[1].file = <<"g">>
    /\ call.input.matches[2].file = <<"f">>
    /\ call.input.matches[3].file = <<"g">>
    /\ ret.value.stdout = <<"g", NL, "f", NL>>
    /\ ret.value.exitCode = 0

----------------------------------------------------------------------------
(* C18: count (-c)                                                          *)

\* execute returned what formatOutput gave in count mode
Counted ==
    /\ pc = "done"
    /\ re # NoRegex
    /\ out.exitCode \in {0, 1}
    /\ ModeOf(parsed) = "count"

\* The records execute gathered, before the max count is applied
Gathered == IF Len(parsed.files) = 0 THEN StdinRecords ELSE allResults

\* The records a file keeps once the max count is applied
KeptOf(records, f) ==
    IF parsed.maxCount > 0 THEN Min(parsed.maxCount, countOf(records, f))
    ELSE countOf(records, f)

CountLine(records, f) ==
    (IF multiFile /\ ~parsed.noFilename THEN f \o <<":">> ELSE <<>>)
    \o numToString(KeptOf(records, f))

\* C18: in count mode stdout holds one line per distinct file that has
\* records, whose number is the number of records of that file left by the
\* max count, written "{file}:{count}" when multiFile and not noFilename and
\* as the bare count otherwise; with no record stdout is the line "0" and
\* the exit code is 1.
C18_CountMode ==
    Counted =>
        \E records \in {Gathered} :
            IF records = <<>>
            THEN out = ExecResult(<<"0", NL>>, <<>>, 1)
            ELSE \E files \in {InFirstSeenOrder(records)} :
                    out = ExecResult(
                              Terminated([r \in 1..Len(files) |-> CountLine(records, files[r])]),
                              <<>>, 0)

\* -m 1 with -c over the mount: the substrate returns two lines of /a and
\* one of /b, and each file is counted once
C18_Witness_CountAfterMaxCount ==
    /\ Counted
    /\ args = <<<<"-", "c", "m", "1">>, <<"a">>, <<"/", "d">>>>
    /\ Len(allResults) = 3
    /\ out.stdout = <<"/", "d", "/", "a", ":", "1", NL, "/", "d", "/", "b", ":", "1", NL>>

----------------------------------------------------------------------------
(* C19: filesWithoutMatch (-L)                                              *)

\* C19: in -L mode, with quiet and -l unset, stdout is always empty and the
\* exit code is 1 if at least one record exists and 0 if none exists.
C19_FilesWithoutMatch ==
    (Formatted /\ ModeOf(call.input.opts) = "filesWithoutMatch") =>
        ret.value = ExecResult(<<>>, <<>>, IF Len(call.input.matches) > 0 THEN 1 ELSE 0)

\* -L with -c and -n set as well, over records of two files
C19_Witness_NothingListed ==
    /\ Formatted
    /\ call.input.opts.filesWithoutMatch /\ call.input.opts.count
    /\ ~call.input.opts.quiet /\ ~call.input.opts.filesWithMatches
    /\ Len(call.input.matches) = 2
    /\ call.input.matches[1].file # call.input.matches[2].file
    /\ ret.value.stdout = <<>>
    /\ ret.value.exitCode = 1

----------------------------------------------------------------------------
(* C20: unreadable files during the local walk                              *)

\* Line n of a file was reported
Reported(f, n) ==
    \E j \in 1..Len(allResults) : allResults[j].file = f /\ allResults[j].lineNumber = n

\* The line is one the search selects
Selected(line) == regexExec(re, line, 0).found # parsed.invertMatch

\* The readable files a local target covers: the file itself, or with -r
\* every file below the directory
CoveredBy(p) ==
    { e \in FsTree :
        /\ e.isFile /\ e.readable
        /\ \/ e.path = p
           \/ parsed.recursive /\ fsExists(p) /\ fsNode(p).isDirectory
              /\ StartsWith(e.path, fsKey(p) \o <<"/">>) }

AllSelectedReported(p) ==
    \A e \in CoveredBy(p) :
        \A n \in 1..Len(splitLines(e.content)) :
            Selected(splitLines(e.content)[n]) => Reported(e.path, n)

LocalWalkDone ==
    /\ pc = "done"
    /\ re # NoRegex
    /\ Len(targets) = Len(resolvedFiles)

\* C20: an unreadable file met during the local walk is skipped and the
\* selected lines of every other readable file of the target set, the other
\* files of the same recursively searched directory included, are still
\* reported, whichever directory-listing primitive the host offers.
C20_Original ==
    LocalWalkDone =>
        \A t \in 1..Len(targets) :
            targets[t].via = "local" => AllSelectedReported(targets[t].path)

\* With readdir and stat per child the unreadable file is skipped
C20_SkippedWithReaddir ==
    (LocalWalkDone /\ ~ctx.withFileTypes) =>
        \A t \in 1..Len(targets) :
            targets[t].via = "local" => AllSelectedReported(targets[t].path)

\* grep -rn a /l on a host with readdirWithFileTypes: /l/u cannot be read and
\* nothing of /l is reported
C20_Witness_DirectoryLost ==
    /\ LocalWalkDone
    /\ ctx.withFileTypes
    /\ args = <<<<"-", "r", "n">>, <<"a">>, <<"/", "l">>>>
    /\ allResults = <<>>
    /\ out = ExecResult(<<>>, <<>>, 1)

----------------------------------------------------------------------------
(* The -o loop on its own, one exec per step: k is re.lastIndex and           *)
(* allResults the records pushed so far                                      *)

ScanLines ==
    { <<>>, <<"a">>, <<"a", "a">>, <<"a", "b">>, <<"b", " ", "a">>, <<"A">> }

InitScan ==
    /\ mount = normalizeMount(<<"/", "d", "/">>)
    /\ \E line \in ScanLines, p \in SearchPatterns, o \in MatchOpts :
          /\ call = [fn |-> "onlyMatching", input |-> [line |-> line, pattern |-> p, opts |-> o]]
          /\ re = buildRegex(p, o)
          /\ parsed = o
    /\ ~re.threw
    /\ pc = "scan"
    /\ k = 0
    /\ allResults = <<>>
    /\ ret = NoReturn
    /\ args = <<>>
    /\ ctx = [stdin |-> <<>>, cwd |-> <<>>, withFileTypes |-> FALSE]
    /\ i = 0
    /\ seenDoubleDash = FALSE
    /\ roles = <<>>
    /\ resolvedFiles = <<>>
    /\ openfsPaths = <<>>
    /\ localPaths = <<>>
    /\ hadError = FALSE
    /\ multiFile = FALSE
    /\ grepCalls = <<>>
    /\ fsCalls = <<>>
    /\ targets = <<>>
    /\ out = NoResult

\* while ((m = re.exec(line)) !== null) { push; if (m[0].length === 0) re.lastIndex++ }
ScanStep ==
    /\ pc = "scan"
    /\ \E m \in {regexExec(re, call.input.line, k)} :
          IF m.found
          THEN /\ allResults' = Append(allResults,
                                       MatchLine(<<>>, 1, call.input.line, TRUE, m.text))
               /\ k' = nextLastIndex(m)
               /\ pc' = pc
          ELSE /\ allResults' = allResults
               /\ k' = 0
               /\ pc' = "scanned"
    /\ UNCHANGED <<mount, args, ctx, i, seenDoubleDash, parsed, roles, re, resolvedFiles,
                   openfsPaths, localPaths, hadError, multiFile, grepCalls, fsCalls,
                   targets, out, call, ret>>

SpecScan == InitScan /\ [][ScanStep]_vars

\* The loop is run to its end: nothing else is scheduled while it runs
SpecScanFair == SpecScan /\ WF_vars(ScanStep)

\* C21: the -o scan over one line ends for every matcher, the ones that match
\* the empty string included: every exec that matches moves the cursor
\* forward, at most length of the line + 1 records are pushed, and the loop
\* is left.
C21_ScanTerminates ==
    /\ [](Len(allResults) <= Len(call.input.line) + 1)
    /\ [][pc' = "scan" => k' > k]_vars
    /\ <>(pc = "scanned")

\* The empty pattern on "ab": three empty matches, at 0, 1 and 2
C21_Witness_EmptyMatches ==
    /\ pc = "scanned"
    /\ call.input.pattern = <<>>
    /\ call.input.line = <<"a", "b">>
    /\ ~call.input.opts.wordRegexp
    /\ Len(allResults) = 3
    /\ \A j \in 1..3 : allResults[j].matchText.text = <<>>

----------------------------------------------------------------------------
(* The companion command openfsgrep: [-n] <pattern> [path], always served    *)
(* by client.grep                                                            *)

\* The argument loop from argument n on: the flag and the positionals, or
\* the option it refuses
RECURSIVE openfsgrepArgs(_, _, _, _)
openfsgrepArgs(argv, n, showLineNumbers, positional) ==
    IF n > Len(argv)
    THEN [refused |-> FALSE, arg |-> <<>>, showLineNumbers |-> showLineNumbers,
          positional |-> positional]
    ELSE With(argv[n],
              LAMBDA arg :
                IF arg = <<"-", "n">> \/ arg = <<"-", "-", "l", "i", "n", "e", "-", "n", "u", "m", "b", "e", "r">>
                THEN openfsgrepArgs(argv, n + 1, TRUE, positional)
                ELSE IF arg = <<"-", "r">> \/ arg = <<"-", "-", "r", "e", "c", "u", "r", "s", "i", "v", "e">>
                THEN openfsgrepArgs(argv, n + 1, showLineNumbers, positional)
                ELSE IF arg = <<"-", "-">>
                THEN [refused |-> FALSE, arg |-> <<>>, showLineNumbers |-> showLineNumbers,
                      positional |-> positional \o SubSeq(argv, n + 1, Len(argv))]
                ELSE IF StartsWith(arg, <<"-">>) /\ Len(positional) = 0
                THEN [refused |-> TRUE, arg |-> arg, showLineNumbers |-> showLineNumbers,
                      positional |-> positional]
                ELSE openfsgrepArgs(argv, n + 1, showLineNumbers, Append(positional, arg)))

\* A line of openfsgrep that always carries the line number
openfsgrepLineNumbered(m, showLineNumbers) ==
    m.path \o <<":">> \o numToString(m.line_number) \o <<":">> \o m.line

openfsgrepLine(m, showLineNumbers) ==
    IF showLineNumbers
    THEN m.path \o <<":">> \o numToString(m.line_number) \o <<":">> \o m.line
    ELSE m.path \o <<":">> \o m.line

OpenfsgrepTokens ==
    { <<"-", "n">>,
      <<"-", "-", "l", "i", "n", "e", "-", "n", "u", "m", "b", "e", "r">>,
      <<"-", "r">>,
      <<"-", "-">>,
      <<"-", "x">>,
      <<"a">>,
      <<"/", "p">> }

OpenfsgrepArgvs == UNION { [1..n -> OpenfsgrepTokens] : n \in 0..MaxArgs }

InvokeOpenfsgrep ==
    /\ pc = "idle"
    /\ \E a \in OpenfsgrepArgvs : args' = a
    /\ pc' = "args"
    /\ UNCHANGED <<mount, ctx, i, seenDoubleDash, parsed, roles, re, resolvedFiles,
                   openfsPaths, localPaths, k, allResults, hadError, multiFile, grepCalls,
                   fsCalls, targets, out, call, ret>>

\* The argument loop and the usage check; `call` holds what client.grep is
\* about to be handed
OpenfsgrepArgsStep ==
    /\ pc = "args"
    /\ \E a \in {openfsgrepArgs(args, 1, FALSE, <<>>)} :
          IF a.refused
          THEN /\ out' = ExecResult(<<>>, <<"openfsgrep: unknown option: ">> \o a.arg \o <<NL>>, 2)
               /\ pc' = "done"
               /\ call' = call
          ELSE IF Len(a.positional) = 0
          THEN /\ out' = ExecResult(<<>>,
                                    <<"openfsgrep: usage: openfsgrep [-n] <pattern> [path]", NL>>,
                                    2)
               /\ pc' = "done"
               /\ call' = call
          ELSE /\ call' = [fn |-> "client.grep",
                           input |-> [pattern |-> a.positional[1],
                                      hasPath |-> Len(a.positional) >= 2,
                                      searchPath |-> IF Len(a.positional) >= 2
                                                     THEN a.positional[2] ELSE <<>>,
                                      showLineNumbers |-> a.showLineNumbers]]
               /\ pc' = "grep"
               /\ out' = out
    /\ UNCHANGED <<mount, args, ctx, i, seenDoubleDash, parsed, roles, re, resolvedFiles,
                   openfsPaths, localPaths, k, allResults, hadError, multiFile, grepCalls,
                   fsCalls, targets, ret>>

\* await client.grep(pattern, searchPath) and the result made of its outcome
OpenfsgrepGrepStep ==
    /\ pc = "grep"
    /\ grepCalls' = Append(grepCalls, call.input)
    /\ \E o \in Outcomes :
          /\ targets' = Append(targets,
                               Target(call.input.searchPath, "server", o.threw, o.err,
                                      o.matches, <<>>))
          /\ out' = IF o.threw
                    THEN ExecResult(<<>>,
                                    <<"openfsgrep: ">>
                                    \o (IF o.err.isError THEN o.err.message ELSE String(o.err))
                                    \o <<NL>>, 2)
                    ELSE IF Len(o.matches) = 0 THEN ExecResult(<<>>, <<>>, 1)
                    ELSE ExecResult(
                             joinWith([j \in 1..Len(o.matches) |->
                                         openfsgrepLine(o.matches[j], call.input.showLineNumbers)],
                                      <<NL>>) \o <<NL>>,
                             <<>>, 0)
    /\ pc' = "done"
    /\ UNCHANGED <<mount, args, ctx, i, seenDoubleDash, parsed, roles, re, resolvedFiles,
                   openfsPaths, localPaths, k, allResults, hadError, multiFile, fsCalls,
                   call, ret>>

SpecOpenfsgrep ==
    InitParse /\ [][InvokeOpenfsgrep \/ OpenfsgrepArgsStep \/ OpenfsgrepGrepStep]_vars

----------------------------------------------------------------------------
(* C22: openfsgrep                                                          *)

IsOperand(a) ==
    a \notin { <<"-", "n">>, <<"-", "-", "l", "i", "n", "e", "-", "n", "u", "m", "b", "e", "r">>, <<"-", "r">>, <<"-", "-", "r", "e", "c", "u", "r", "s", "i", "v", "e">> }

\* Where the separator stands, or one past the end
SeparatorAt(argv) ==
    IF \E j \in 1..Len(argv) : argv[j] = <<"-", "-">>
    THEN CHOOSE j \in 1..Len(argv) :
            argv[j] = <<"-", "-">> /\ \A h \in 1..(j - 1) : argv[h] # <<"-", "-">>
    ELSE Len(argv) + 1

\* The pattern and the path of an argv: what is no flag before the
\* separator, and everything after it
Operands(argv) ==
    SelectSeq(SubSeq(argv, 1, SeparatorAt(argv) - 1), IsOperand)
    \o SubSeq(argv, SeparatorAt(argv) + 1, Len(argv))

LineNumberGiven(argv) ==
    \E j \in 1..(SeparatorAt(argv) - 1) :
        argv[j] \in { <<"-", "n">>, <<"-", "-", "l", "i", "n", "e", "-", "n", "u", "m", "b", "e", "r">> }

MatchLineOf(m, numbered) ==
    m.path \o <<":">>
    \o (IF numbered THEN numToString(m.line_number) \o <<":">> ELSE <<>>)
    \o m.line

\* C22: openfsgrep hands the pattern and the optional path to client.grep
\* exactly once and reads no file itself; it returns exit 1 with empty
\* stdout when nothing matched, exit 2 with empty stdout and the message on
\* stderr when client.grep threw, and otherwise exit 0 with one line per
\* match, "path:line", or "path:line_number:line" under -n, in the order the
\* substrate returned them.  An argv that is refused reaches no call.
C22_Openfsgrep ==
    /\ Len(grepCalls) <= 1
    /\ fsCalls = <<>>
    /\ pc = "done" =>
          IF grepCalls = <<>>
          THEN out.exitCode = 2 /\ out.stdout = <<>> /\ targets = <<>>
          ELSE /\ Len(targets) = 1
               /\ grepCalls[1].pattern = Operands(args)[1]
               /\ grepCalls[1].hasPath = (Len(Operands(args)) >= 2)
               /\ grepCalls[1].hasPath => grepCalls[1].searchPath = Operands(args)[2]
               /\ IF targets[1].threw
                  THEN out = ExecResult(<<>>,
                                        <<"openfsgrep: ">> \o ThrownText(targets[1].err)
                                        \o <<NL>>, 2)
                  ELSE IF targets[1].raw = <<>>
                  THEN out = ExecResult(<<>>, <<>>, 1)
                  ELSE out = ExecResult(
                                 Terminated([j \in 1..Len(targets[1].raw) |->
                                               MatchLineOf(targets[1].raw[j],
                                                           LineNumberGiven(args))]),
                                 <<>>, 0)

\* -n after the pattern: three matches printed with their line numbers
C22_Witness_NumberedLines ==
    /\ pc = "done"
    /\ args = <<<<"a">>, <<"-", "n">>, <<"/", "p">>>>
    /\ grepCalls = << [pattern |-> <<"a">>, hasPath |-> TRUE, searchPath |-> <<"/", "p">>,
                       showLineNumbers |-> TRUE] >>
    /\ out.exitCode = 0
    /\ out.stdout = <<"/", "a", ":", "1", ":", "a", NL,
                      "/", "a", ":", "2", ":", "b", NL,
                      "/", "b", ":", "1", ":", "a", "a", NL>>

----------------------------------------------------------------------------
(* Two invocations of the line loop over two files of the same content,     *)
(* re.lastIndex (k) being state of the one RegExp an invocation builds: i    *)
(* counts the lines done of the current file, targets the files done, ret    *)
(* keeps what the first invocation returned                                 *)

RunOpts == { [o EXCEPT !.invertMatch = v] : o \in MatchOpts, v \in BOOLEAN }

InitRuns ==
    /\ mount = normalizeMount(<<"/", "d", "/">>)
    /\ \E c \in Contents, p \in SearchPatterns, o \in RunOpts :
          /\ call = [fn |-> "execute", input |-> [content |-> c, pattern |-> p, opts |-> o]]
          /\ re = buildRegex(p, o)
          /\ parsed = o
    /\ ~re.threw
    /\ pc = "lines"
    /\ resolvedFiles = << <<"f">>, <<"g">> >>
    /\ i = 0
    /\ k = 0
    /\ allResults = <<>>
    /\ targets = <<>>
    /\ ret = NoReturn
    /\ args = <<>>
    /\ ctx = [stdin |-> <<>>, cwd |-> <<>>, withFileTypes |-> FALSE]
    /\ seenDoubleDash = FALSE
    /\ roles = <<>>
    /\ openfsPaths = <<>>
    /\ localPaths = <<>>
    /\ hadError = FALSE
    /\ multiFile = FALSE
    /\ grepCalls = <<>>
    /\ fsCalls = <<>>
    /\ out = NoResult

RunLines == splitLines(call.input.content)

\* One turn of the loop over the lines of the current file
LineStep ==
    /\ pc = "lines"
    /\ Len(targets) < Len(resolvedFiles)
    /\ i < Len(RunLines)
    /\ \E file \in {resolvedFiles[Len(targets) + 1]}, line \in {RunLines[i + 1]} :
       \E match \in {regexExec(re, line, resetLastIndex(k))} :
          IF (IF parsed.invertMatch THEN ~match.found ELSE match.found)
          THEN IF parsed.onlyMatching /\ match.found
               THEN /\ allResults' = allResults \o onlyMatchingLoop(file, i + 1, line, re, 0)
                    /\ k' = 0
               ELSE /\ allResults' = Append(allResults,
                                            MatchLine(file, i + 1, line, match.found, match.text))
                    /\ k' = IF match.found THEN match.end ELSE 0
          ELSE /\ allResults' = allResults
               /\ k' = IF match.found THEN match.end ELSE 0
    /\ i' = i + 1
    /\ UNCHANGED <<mount, pc, args, ctx, seenDoubleDash, parsed, roles, re, resolvedFiles,
                   openfsPaths, localPaths, hadError, multiFile, grepCalls, fsCalls,
                   targets, out, call, ret>>

\* The loop over the lines is left: the next file, or the end of the invocation
FileDone ==
    /\ pc = "lines"
    /\ Len(targets) < Len(resolvedFiles)
    /\ i = Len(RunLines)
    /\ targets' = Append(targets,
                         Target(resolvedFiles[Len(targets) + 1], "local", FALSE, NoError,
                                <<>>, <<>>))
    /\ i' = 0
    /\ pc' = IF Len(targets') = Len(resolvedFiles) THEN "returned" ELSE "lines"
    /\ UNCHANGED <<mount, args, ctx, seenDoubleDash, parsed, roles, re, resolvedFiles,
                   openfsPaths, localPaths, k, allResults, hadError, multiFile, grepCalls,
                   fsCalls, out, call, ret>>

\* The command object is executed again with the same input: a new RegExp
Reinvoke ==
    /\ pc = "returned"
    /\ ret.fn = "none"
    /\ ret' = [fn |-> "execute", value |-> allResults]
    /\ re' = buildRegex(call.input.pattern, call.input.opts)
    /\ k' = 0
    /\ allResults' = <<>>
    /\ targets' = <<>>
    /\ pc' = "lines"
    /\ UNCHANGED <<mount, args, ctx, i, seenDoubleDash, parsed, roles, resolvedFiles,
                   openfsPaths, localPaths, hadError, multiFile, grepCalls, fsCalls, out,
                   call>>

SpecRuns == InitRuns /\ [][LineStep \/ FileDone \/ Reinvoke]_vars

----------------------------------------------------------------------------
(* C23: nothing is carried from one invocation, file or line to the next    *)

RecordsOfFile(records, file) == SelectSeq(records, LAMBDA r : r.file = file)

NamedAs(records, file) == [j \in 1..Len(records) |-> [records[j] EXCEPT !.file = file]]

\* C23: two executions of the command on the same input return the same
\* records, the second file of an invocation gives the records the first
\* one gave for the same content, and every line gives the records it gives
\* when matched from a scan position of zero: the matcher's scan position
\* is not carried from one invocation, file or line to the next.
C23_NothingCarried ==
    pc = "returned" =>
        /\ ret.fn = "execute" => allResults = ret.value
        /\ RecordsOfFile(allResults, <<"g">>)
              = NamedAs(RecordsOfFile(allResults, <<"f">>), <<"g">>)
        /\ allResults = matchLines(<<"f">>, RunLines, 1, re, parsed)
                        \o matchLines(<<"g">>, RunLines, 1, re, parsed)

\* The second execution returned; the last line of the content matched, so
\* the scan position was not zero when the first file was left
C23_Witness_SecondRunSame ==
    /\ pc = "returned"
    /\ ret.fn = "execute"
    /\ call.input.content = <<"a", "b", NL, "b", NL, "A", " ", "a", NL>>
    /\ call.input.pattern = <<"a">>
    /\ call.input.opts = NewGrepArgs
    /\ k = 3
    /\ Len(allResults) = 4
    /\ allResults = ret.value

----------------------------------------------------------------------------
(* C24: the pattern sent to vfs.grep                                        *)

\* The pattern with the transforms of the flags: escaped under -F, then
\* wrapped in word boundaries under -w
Transformed(pattern, opts) ==
    With(IF opts.fixedStrings THEN escapeRegex(pattern) ELSE pattern,
         LAMBDA esc : IF opts.wordRegexp THEN <<"\\", "b">> \o esc \o <<"\\", "b">> ELSE esc)

\* C24: for every combination of -F and -w the pattern sent to vfs.grep
\* carries the transforms of the local matcher's source: escaped under -F,
\* wrapped in word boundaries under -w, also when both are set.
C24_Original ==
    \A c \in 1..Len(grepCalls) :
        /\ grepCalls[c][1] = Transformed(joinWith(parsed.patterns, <<"|">>), parsed)
        /\ grepCalls[c][1] = re.src

\* With at most one of -F and -w set the pattern sent is the local source
C24_OneTransform ==
    \A c \in 1..Len(grepCalls) :
        ~(parsed.fixedStrings /\ parsed.wordRegexp) =>
            /\ grepCalls[c][1] = Transformed(joinWith(parsed.patterns, <<"|">>), parsed)
            /\ grepCalls[c][1] = re.src

\* -w and -F together: the pattern is sent without word boundaries
C24_Witness_BoundariesLost ==
    /\ pc = "done"
    /\ args = <<<<"-", "w", "F">>, <<"a">>, <<"/", "d", "/", "b">>>>
    /\ grepCalls = << <<<<"a">>, <<"/", "b">>>> >>
    /\ re.src = <<"\\", "b", "a", "\\", "b">>
    /\ out.stdout = <<"a", "a", NL>>

----------------------------------------------------------------------------
(* C25: what vfs.grep returned against the local matcher                    *)

Accepted(line) == regexExec(re, line, 0).found

\* C25: every record that came from vfs.grep has a line the local matcher
\* accepts, whatever the flags: a returned match that fails is discarded.
C25_Original ==
    \A t \in 1..Len(targets) :
        (targets[t].via = "server" /\ ~targets[t].threw) =>
            \A r \in 1..Len(targets[t].results) : Accepted(targets[t].results[r].line)

\* Without -i every returned match is converted, accepted or not
C25_KeptWithoutIgnoreCase ==
    \A t \in 1..Len(targets) :
        (targets[t].via = "server" /\ ~targets[t].threw /\ ~parsed.ignoreCase) =>
            Len(targets[t].results) = Len(targets[t].raw)

\* The substrate answered the pattern a with the line "A", and it is printed
C25_Witness_RejectedLinePrinted ==
    /\ pc = "done"
    /\ args = <<<<"a">>, <<"/", "d">>>>
    /\ Len(targets) = 1
    /\ targets[1].raw = << GrepMatch(<<"/">>, 3, <<"A">>) >>
    /\ ~Accepted(<<"A">>)
    /\ out.stdout = <<"A", NL>>
    /\ out.exitCode = 0

----------------------------------------------------------------------------
(* C26: the calls to vfs.grep                                               *)

\* The file arguments under the mount point, in argument order
RemoteEligible == SelectSeq(resolvedFiles, UnderMount)

ServerTargets == SelectSeq(targets, LAMBDA t : t.via = "server")

\* C26: within one invocation vfs.grep is invoked at most once per
\* remote-eligible file argument, in argument order: call c is the call for
\* the c-th such argument and has one outcome, failed or not, calls are only
\* ever added one at a time, and there are never more calls than
\* remote-eligible arguments.
C26_OncePerArgument ==
    /\ [](/\ Len(grepCalls) <= Len(RemoteEligible)
          /\ Len(ServerTargets) = Len(grepCalls)
          /\ \A c \in 1..Len(grepCalls) :
                /\ grepCalls[c][2] = WithoutMount(RemoteEligible[c])
                /\ ServerTargets[c].path = RemoteEligible[c])
    /\ [][\/ grepCalls' = grepCalls
          \/ /\ Len(grepCalls') = Len(grepCalls) + 1
             /\ SubSeq(grepCalls', 1, Len(grepCalls)) = grepCalls]_vars

\* Two arguments under the mount: the first call failed, the second was
\* made for the second argument
C26_Witness_NoRetryAfterFailure ==
    /\ pc = "done"
    /\ args = <<<<"a">>, <<"/", "d", "/", "a">>, <<"/", "d">>>>
    /\ Len(grepCalls) = 2
    /\ grepCalls[1][2] = <<"/", "a">>
    /\ grepCalls[2][2] = <<"/">>
    /\ targets[1].threw
    /\ ~targets[2].threw

----------------------------------------------------------------------------
(* C27: the stages of an invocation                                         *)

\* START 1, PARSED and COMPILED 2, CLASSIFIED (the loops over the targets) 3,
\* MATCHED 4, FORMATTED and DONE 5
Stage(p) ==
    CASE p = "idle" -> 0
      [] p = "parse" -> 1
      [] p = "compiled" -> 2
      [] p \in {"server", "fallback", "local"} -> 3
      [] p = "matched" -> 4
      [] OTHER -> 5

\* The step stays in its stage (one more token, one more target) or enters
\* the next one
Advances == Stage(pc') = Stage(pc) \/ Stage(pc') = Stage(pc) + 1

\* The step ends the invocation before classification with exit code 2, and
\* neither vfs.grep nor the host file system has been asked anything
RefusedBeforeClassification ==
    /\ Stage(pc) \in {1, 2}
    /\ pc' = "done"
    /\ out'.exitCode = 2
    /\ grepCalls' = <<>> /\ fsCalls' = <<>> /\ resolvedFiles' = <<>> /\ targets' = <<>>

\* The step matches and formats stdin, there being no file to classify
StdinServed ==
    /\ pc = "compiled"
    /\ pc' = "done"
    /\ parsed.files = <<>>
    /\ out'.exitCode \in {0, 1}
    /\ grepCalls' = <<>> /\ fsCalls' = <<>>

\* The step returns from the catch of the only target's vfs.grep
SoleTargetFailed ==
    /\ pc = "server"
    /\ pc' = "done"
    /\ out'.exitCode = 2
    /\ Len(resolvedFiles) = 1
    /\ Len(targets') = 1 /\ targets'[1].threw

\* C27 as stated: an invocation goes through its stages in order, none
\* skipped or repeated, and leaves them early only before classification,
\* with exit code 2 and without a call to vfs.grep or to the file system.
C27_Original ==
    [][Advances \/ RefusedBeforeClassification \/ StdinServed]_vars

\* C27: an invocation goes through its stages in order, none skipped or
\* repeated; it leaves them early before classification, with exit code 2
\* and without a call to vfs.grep or to the file system, or from the loop
\* over the targets when the vfs.grep call of the only target fails.
C27_StagesInOrder ==
    [][Advances \/ RefusedBeforeClassification \/ StdinServed \/ SoleTargetFailed]_vars

\* An invalid option: the invocation is over after the first token
C27_Witness_RefusedWhileParsing ==
    /\ pc = "done"
    /\ Len(args) = 3
    /\ args[1] = <<"-", "z">>
    /\ i = 0
    /\ out.exitCode = 2
    /\ grepCalls = <<>> /\ fsCalls = <<>> /\ resolvedFiles = <<>>

\* The only target is a mount path and its vfs.grep call threw: the
\* invocation is over without the records being formatted
C27_Witness_LeftFromTheLoop ==
    /\ pc = "done"
    /\ args = <<<<"a">>, <<"/", "d", "/", "a">>>>
    /\ Len(grepCalls) = 1
    /\ Len(targets) = 1 /\ targets[1].threw
    /\ multiFile = FALSE
    /\ out.exitCode = 2

----------------------------------------------------------------------------
(* C28: a directory as file argument of the Local Matcher                   *)

IsDirectoryTarget(t) ==
    /\ targets[t].via = "local"
    /\ fsExists(targets[t].path)
    /\ fsNode(targets[t].path).isDirectory

\* The readable files below a path, children in the order the directory
\* lists them, a directory's files before its next sibling
RECURSIVE FilesDepthFirst(_)
RECURSIVE ChildrenDepthFirst(_, _)
FilesDepthFirst(path) ==
    IF ~fsExists(path) THEN <<>>
    ELSE IF fsNode(path).isDirectory THEN ChildrenDepthFirst(path, 1)
    ELSE IF fsNode(path).readable THEN <<path>>
    ELSE <<>>

ChildrenDepthFirst(dir, n) ==
    IF n > Len(fsNode(dir).names) THEN <<>>
    ELSE FilesDepthFirst(resolvePath(dir, fsNode(dir).names[n]))
         \o ChildrenDepthFirst(dir, n + 1)

RECURSIVE RecordsOfFiles(_, _)
RecordsOfFiles(files, n) ==
    IF n > Len(files) THEN <<>>
    ELSE matchLines(files[n], splitLines(fsNode(files[n]).content), 1, re, parsed)
         \o RecordsOfFiles(files, n + 1)

\* C28: a directory handed to the Local Matcher without -r is an error for
\* that target, not a silent empty result; with -r its children are
\* enumerated and searched depth-first.
C28_Original ==
    \A t \in 1..Len(targets) :
        IsDirectoryTarget(t) =>
            IF parsed.recursive
            THEN ~targets[t].threw =>
                    targets[t].results
                        = RecordsOfFiles(FilesDepthFirst(fsKey(targets[t].path)), 1)
            ELSE targets[t].threw /\ (hadError \/ parsed.quiet)

\* With -r the children of a directory are searched depth-first
C28_RecursiveDepthFirst ==
    \A t \in 1..Len(targets) :
        (IsDirectoryTarget(t) /\ parsed.recursive /\ ~targets[t].threw) =>
            targets[t].results = RecordsOfFiles(FilesDepthFirst(fsKey(targets[t].path)), 1)

\* grep a /l: the directory gives no record and no error
C28_Witness_SilentDirectory ==
    /\ pc = "done"
    /\ args = <<<<"a">>, <<"/", "l">>>>
    /\ Len(targets) = 1
    /\ ~targets[1].threw
    /\ ~hadError
    /\ fsCalls = << <<"stat", <<"/", "l">>>> >>
    /\ out = ExecResult(<<>>, <<>>, 1)

\* grep -rn a /l with readdir: /l/a, then /l/s/c, /l/u being skipped
C28_Witness_DepthFirst ==
    /\ pc = "done"
    /\ args = <<<<"-", "r", "n">>, <<"a">>, <<"/", "l">>>>
    /\ ~ctx.withFileTypes
    /\ Len(allResults) = 3
    /\ allResults[3].file = <<"/", "l", "/", "s", "/", "c">>

----------------------------------------------------------------------------
(* C29: the two classes of file arguments                                   *)

NotUnderMount(p) == ~UnderMount(p)

\* C29: every resolved file argument is in exactly one class before any
\* matching starts and stays there: it is remote-eligible iff it is the
\* mount point or starts with the mount point followed by "/", the slash
\* that may end the configured mount point being ignored; a path that only
\* shares a string prefix with the mount point is local and never goes to
\* vfs.grep.
C29_Classification ==
    /\ [](/\ \E mp \in MountPoints : mount \in {mp, DropLast(mp)}
          /\ ~EndsWith(mount, <<"/">>)
          /\ Stage(pc) <= 2 => grepCalls = <<>> /\ fsCalls = <<>> /\ targets = <<>>
          /\ Stage(pc) >= 3 =>
                /\ openfsPaths = SelectSeq(resolvedFiles, UnderMount)
                /\ localPaths = SelectSeq(resolvedFiles, NotUnderMount)
          /\ \A t \in 1..Len(targets) :
                targets[t].via = "server" => UnderMount(targets[t].path)
          /\ \A c \in 1..Len(grepCalls) :
                \E n \in 1..Len(resolvedFiles) :
                    /\ UnderMount(resolvedFiles[n])
                    /\ grepCalls[c][2] = WithoutMount(resolvedFiles[n]))
    /\ [][Stage(pc) >= 3 => UNCHANGED <<resolvedFiles, openfsPaths, localPaths>>]_vars

\* /dx next to the mount point /d: read locally, not sent
C29_Witness_PrefixSharedOnly ==
    /\ pc = "done"
    /\ args = <<<<"a">>, <<"/", "d", "x">>, <<"/", "d", "/">>>>
    /\ localPaths = << <<"/", "d", "x">> >>
    /\ openfsPaths = << <<"/", "d", "/">> >>
    /\ Len(grepCalls) = 1
    /\ ReadLocally(<<"/", "d", "x">>)

----------------------------------------------------------------------------
(* C30: the exit code when a target failed                                  *)

\* execute has parsed and compiled, and returned
Returned30 == pc = "done" /\ re # NoRegex

SomeRecordKept ==
    \E f \in FilesOf(Gathered) : KeptOf(Gathered, f) > 0

MatchExitCode ==
    /\ out.stderr = <<>>
    /\ out.exitCode = IF SomeRecordKept THEN 0 ELSE 1

\* C30 as stated: every invocation that gets past parsing and compilation
\* and does not end in the sole-target failure returns, outside -L mode,
\* exit code 0 if a record is left by the max count and 1 otherwise, with
\* empty stderr, also when a target failed.
C30_Original ==
    (Returned30 /\ ~SoleTargetThrew /\ ModeOf(parsed) # "filesWithoutMatch") => MatchExitCode

\* C30: the same, for the invocations that have a file argument or a
\* non-empty stdin
C30_ExitCode ==
    (/\ Returned30
     /\ ~SoleTargetThrew
     /\ ModeOf(parsed) # "filesWithoutMatch"
     /\ parsed.files # <<>> \/ ctx.stdin # <<>>) => MatchExitCode

\* The first of two mount paths failed, quiet is unset, and the exit code
\* is that of the records of the second
C30_Witness_FailureNotReported ==
    /\ Returned30
    /\ Len(targets) = 2
    /\ targets[1].threw /\ ~targets[2].threw
    /\ ~parsed.quiet
    /\ hadError
    /\ out.stderr = <<>>
    /\ out.exitCode = 0

====
